---- MODULE Spec2Model ----
(***************************************************************************)
(* Habla Espanol: the SM-2 review scheduler (SpacedRepetition), the        *)
(* progress store it persists to, and the answer matcher (FuzzyMatcher).   *)
(*                                                                         *)
(* easeFactor is an IEEE-754 double in the program.  TLC has 32-bit        *)
(* integers only, so a double is carried here as an exact natural number   *)
(* of units of 2^-60, written in limbs of 15 bits (least significant       *)
(* first), and every floating-point operation of the source is computed    *)
(* exactly and then rounded to 53 significant bits, ties to even, as the   *)
(* hardware does.                                                          *)
(*                                                                         *)
(* Timestamps (Date.now(), nextReview, lastReview) are counted in hours    *)
(* (1 hour = 60 * 60 * 1000 ms), so that one day is HoursPerDay.           *)
(***************************************************************************)
EXTENDS Integers, Sequences, FiniteSets, Bags

VARIABLES
    now,        \* the wall clock, Date.now(), in hours
    progress,   \* SpecSM2: the record a chain of calculateNextReview calls has produced
    quality,    \* the quality given to the most recent calculateNextReview call ({} before any)
    store,      \* Spec: the progress store, phraseId -> record (its domain: the ids with a record)
    call,       \* Spec: the most recent recordReview call: its arguments and the record it started from
    ret,        \* Spec: the record the most recent recordReview call returned
    phraseList, \* the phrase list the scheduler was constructed with (ids, in list order)
    next,       \* SpecQueue: what the getNextPhrase call just made returned ({} when none was)
    stats,      \* SpecStats: what the getStats call just made returned ({} when none was)
    answer,     \* FuzzyMatcher: the first argument of the call (a string: a sequence of characters)
    expected,   \* FuzzyMatcher: the second argument of the call
    options,    \* FuzzyMatcher.match: the options argument
    result,     \* FuzzyMatcher: what the call returned ({} before the call)
    log,        \* SpecStore: the calls made to the progress store so far, oldest first
    quiz,       \* SpecQuiz: the quiz page: its controller's fields, its timers, what it sent
    worker,     \* SpecBypass: the service worker: chrome.storage.local, the rule, its timers
    overlay     \* SpecOverlay: the content script: its overlay, its listener, its timers

fuzzyVars == <<answer, expected, options, result>>
pageVars == <<log, quiz, worker, overlay>>
schedulerVars == <<now, progress, quality, store, call, ret, phraseList, next, stats>>
vars == <<now, progress, quality, store, call, ret, phraseList, next, stats, fuzzyVars,
          pageVars>>

----------------------------------------------------------------------------
(* Bounds of the model *)

\* SpecSM2: a record is taken through at most this many calculateNextReview calls
MaxReviews == 6
\* Spec: a recordReview call is made while fewer reviews than this are stored or under way
MaxStoreReviews == 2
\* Date.now() when the program starts, in hours
StartTime == 1000

----------------------------------------------------------------------------
(* Exact natural numbers in five limbs of 15 bits, least significant first *)

LimbBase == 2^15
LimbBits == CHOOSE k \in 1..30 : 2^k = LimbBase
Limbs == 1..5
\* the position of the binary point: a number n stands for n * 2^-FracBits
FracBits == 4 * LimbBits
\* significant bits of a double
Precision == 53

BigZero == <<0, 0, 0, 0, 0>>
\* 0 <= n < 2^31
BigOfInt(n) == <<n % LimbBase, (n \div LimbBase) % LimbBase, n \div (LimbBase * LimbBase), 0, 0>>

\* limbs after carry (or borrow) propagation; x may hold limbs outside 0..LimbBase-1
Normalize(x) ==
    LET s1 == x[1]
        s2 == x[2] + (s1 \div LimbBase)
        s3 == x[3] + (s2 \div LimbBase)
        s4 == x[4] + (s3 \div LimbBase)
        s5 == x[5] + (s4 \div LimbBase)
    IN  <<s1 % LimbBase, s2 % LimbBase, s3 % LimbBase, s4 % LimbBase, s5 % LimbBase>>

BigAdd(x, y) == Normalize(<<x[1] + y[1], x[2] + y[2], x[3] + y[3], x[4] + y[4], x[5] + y[5]>>)
\* x - y, for x >= y
BigSub(x, y) == Normalize(<<x[1] - y[1], x[2] - y[2], x[3] - y[3], x[4] - y[4], x[5] - y[5]>>)
\* x * n, for 0 <= n < 2^16
BigMulSmall(x, n) == Normalize(<<x[1] * n, x[2] * n, x[3] * n, x[4] * n, x[5] * n>>)

\* -1, 0, 1 as x < y, x = y, x > y
BigCmp(x, y) ==
    IF x = y THEN 0
    ELSE LET t == CHOOSE i \in Limbs : x[i] # y[i] /\ \A j \in Limbs : j > i => x[j] = y[j]
         IN  IF x[t] < y[t] THEN -1 ELSE 1

\* quotient and remainder of x by a small d (1 <= d < 2^15)
BigDivSmall(x, d) ==
    LET n5 == x[5]
        n4 == (n5 % d) * LimbBase + x[4]
        n3 == (n4 % d) * LimbBase + x[3]
        n2 == (n3 % d) * LimbBase + x[2]
        n1 == (n2 % d) * LimbBase + x[1]
    IN  [quot |-> <<n1 \div d, n2 \div d, n3 \div d, n4 \div d, n5 \div d>>, rem |-> n1 % d]

\* number of bits of a limb value
SmallBitLen(v) == IF v = 0 THEN 0 ELSE CHOOSE k \in 1..LimbBits : 2^(k-1) <= v /\ v < 2^k

BitLen(x) ==
    IF x = BigZero THEN 0
    ELSE LET t == CHOOSE i \in Limbs : x[i] # 0 /\ \A j \in Limbs : j > i => x[j] = 0
         IN  LimbBits * (t - 1) + SmallBitLen(x[t])

LimbAt(x, j) == IF j \in Limbs THEN x[j] ELSE 0

\* floor(x / 2^s)
ShiftRight(x, s) ==
    LET a == s \div LimbBits
        b == s % LimbBits
        limb(i) == (LimbAt(x, i + a) \div 2^b) + (LimbAt(x, i + a + 1) % 2^b) * 2^(LimbBits - b)
    IN  <<limb(1), limb(2), limb(3), limb(4), limb(5)>>

\* x * 2^s (the result must fit)
ShiftLeft(x, s) ==
    LET a == s \div LimbBits
        b == s % LimbBits
        limb(i) == (LimbAt(x, i - a) % 2^(LimbBits - b)) * 2^b
                   + (LimbAt(x, i - a - 1) \div 2^(LimbBits - b))
    IN  <<limb(1), limb(2), limb(3), limb(4), limb(5)>>

BigOne == BigOfInt(1)

----------------------------------------------------------------------------
(* IEEE-754 double arithmetic on non-negative values *)

\* x mod 2^s
LowBits(x, s) ==
    LET a == s \div LimbBits
        b == s % LimbBits
        limb(i) == IF i <= a THEN x[i] ELSE IF i = a + 1 THEN x[i] % 2^b ELSE 0
    IN  <<limb(1), limb(2), limb(3), limb(4), limb(5)>>

\* bit s of x (bit 0 is the least significant)
BitAt(x, s) == (LimbAt(x, (s \div LimbBits) + 1) \div 2^(s % LimbBits)) % 2

\* x rounded to Precision significant bits, ties to even; sticky says that the
\* exact value is a little above x (a division left a remainder)
RoundSticky(x, sticky) ==
    LET n == BitLen(x) IN
    IF n <= Precision THEN x
    ELSE LET s == n - Precision
             rest == LowBits(x, s)
             c == BigCmp(rest, ShiftLeft(BigOne, s - 1))
             up == c = 1 \/ (c = 0 /\ (sticky \/ BitAt(x, s) = 1))
             down == BigSub(x, rest)
         IN  IF up THEN BigAdd(down, ShiftLeft(BigOne, s)) ELSE down

RoundToDouble(x) == RoundSticky(x, FALSE)

\* the double a decimal literal p/d denotes (0.02 is DoubleOf(2, 100))
DoubleOf(p, d) ==
    LET f == BigDivSmall(ShiftLeft(BigOfInt(p), FracBits), d)
    IN  RoundSticky(f.quot, f.rem # 0)

\* double + double, double - double (x >= y), integer * double
FAdd(x, y) == RoundToDouble(BigAdd(x, y))
FSub(x, y) == RoundToDouble(BigSub(x, y))
FMulInt(n, x) == RoundToDouble(BigMulSmall(x, n))

\* Math.round of a non-negative double: floor(x + 1/2), exactly
MathRound(x) ==
    LET r == ShiftRight(BigAdd(x, ShiftLeft(BigOne, FracBits - 1)), FracBits)
    IN  r[1] + r[2] * LimbBase

----------------------------------------------------------------------------
(* SpacedRepetition *)

HoursPerDay == 24
Null == -1

\* the numeric literals of calculateNextReview and createInitialProgress
InitialEase == DoubleOf(25, 10)
MinEase == DoubleOf(13, 10)
EfBase == DoubleOf(1, 10)
EfLinear == DoubleOf(8, 100)
EfQuadratic == DoubleOf(2, 100)

createInitialProgress(phraseId) ==
    [ phraseId |-> phraseId,
      easeFactor |-> InitialEase,
      interval |-> 0,
      repetitions |-> 0,
      nextReview |-> 0,
      lastReview |-> Null,
      totalReviews |-> 0,
      correctReviews |-> 0 ]

\* (mutant) totalReviews counted in the failure branch only
updatedTotalReviewsOnFailure(p, q) == IF q >= 3 THEN p.totalReviews ELSE p.totalReviews + 1

\* updated.totalReviews++
updatedTotalReviews(p, q) == p.totalReviews + 1

\* (mutant) the success threshold off by one: quality > 3
updatedCorrectReviewsAbove3(p, q) ==
    IF q > 3 THEN p.correctReviews + 1 ELSE p.correctReviews

\* if (quality >= 3) updated.correctReviews++
updatedCorrectReviews(p, q) ==
    IF q >= 3 THEN p.correctReviews + 1 ELSE p.correctReviews

\* (mutant) the third and later interval taken from the ease factor this call computes:
\* Math.max(1.3, easeFactor + efChange) for quality >= 3, where efChange is 0.1 - t(quality)
updatedIntervalNewEase(p, q) ==
    IF q >= 3
    THEN IF p.repetitions = 0 THEN 1
         ELSE IF p.repetitions = 1 THEN 6
         ELSE LET t == FMulInt(5 - q, FAdd(DoubleOf(8, 100), FMulInt(5 - q, DoubleOf(2, 100))))
                  ef == IF BigCmp(t, DoubleOf(1, 10)) <= 0
                        THEN FAdd(p.easeFactor, FSub(DoubleOf(1, 10), t))
                        ELSE FSub(p.easeFactor, FSub(t, DoubleOf(1, 10)))
              IN  MathRound(FMulInt(p.interval,
                      IF BigCmp(ef, DoubleOf(13, 10)) >= 0 THEN ef ELSE DoubleOf(13, 10)))
    ELSE 1

\* (mutant) the interval of 6 days given to the third success as well
updatedIntervalSixTwice(p, q) ==
    IF q >= 3
    THEN IF p.repetitions = 0 THEN 1
         ELSE IF p.repetitions <= 2 THEN 6
         ELSE MathRound(FMulInt(p.interval, p.easeFactor))
    ELSE 1

\* the interval of both branches
updatedInterval(p, q) ==
    IF q >= 3
    THEN IF p.repetitions = 0 THEN 1
         ELSE IF p.repetitions = 1 THEN 6
         ELSE MathRound(FMulInt(p.interval, p.easeFactor))
    ELSE 1

\* (mutant) a failure keeps the streak
updatedRepetitionsKept(p, q) ==
    IF q >= 3 THEN p.repetitions + 1 ELSE p.repetitions

\* the repetitions of both branches
updatedRepetitions(p, q) ==
    IF q >= 3 THEN p.repetitions + 1 ELSE 0

\* (mutant) the linear coefficient 0.09 for 0.08
efChangeLinear9(q) ==
    LET t == FMulInt(5 - q, FAdd(DoubleOf(9, 100), FMulInt(5 - q, EfQuadratic)))
    IN  IF BigCmp(t, EfBase) <= 0
        THEN [neg |-> FALSE, mag |-> FSub(EfBase, t)]
        ELSE [neg |-> TRUE, mag |-> FSub(t, EfBase)]

\* efChange = 0.1 - (5 - quality) * (0.08 + (5 - quality) * 0.02), for quality in 0..5.
\* The difference is carried as a sign and a magnitude.
efChange(q) ==
    LET t == FMulInt(5 - q, FAdd(EfLinear, FMulInt(5 - q, EfQuadratic)))
    IN  IF BigCmp(t, EfBase) <= 0
        THEN [neg |-> FALSE, mag |-> FSub(EfBase, t)]
        ELSE [neg |-> TRUE, mag |-> FSub(t, EfBase)]

\* efChange for each quality a caller is to supply, worked out once
Qualities == 0..5
efChangeOf == [q \in Qualities |-> efChange(q)]

\* Math.max(a, b)
MathMax(a, b) == IF BigCmp(a, b) >= 0 THEN a ELSE b

\* (mutant) the floor of 1.3 left out (a negative sum shown as 0)
updatedEaseFactorNoFloor(p, q) ==
    LET c == efChangeOf[q] IN
    IF ~c.neg THEN FAdd(p.easeFactor, c.mag)
    ELSE IF BigCmp(p.easeFactor, c.mag) >= 0
         THEN FSub(p.easeFactor, c.mag)
         ELSE BigZero

\* Math.max(1.3, updated.easeFactor + efChange)
updatedEaseFactor(p, q) ==
    LET c == efChangeOf[q] IN
    IF ~c.neg THEN MathMax(MinEase, FAdd(p.easeFactor, c.mag))
    ELSE IF BigCmp(p.easeFactor, c.mag) >= 0
         THEN MathMax(MinEase, FSub(p.easeFactor, c.mag))
         ELSE MinEase   \* the sum is negative

\* (mutant) the interval added as if it were in the clock's unit
updatedNextReviewNoDays(t, interval) == t + interval

\* now + (updated.interval * 24 * 60 * 60 * 1000), in hours
updatedNextReview(t, interval) == t + interval * HoursPerDay

\* calculateNextReview(progress, quality), called when Date.now() is t
calculateNextReview(p, q, t) ==
    LET interval == updatedInterval(p, q) IN
    [ phraseId |-> p.phraseId,
      easeFactor |-> updatedEaseFactor(p, q),
      interval |-> interval,
      repetitions |-> updatedRepetitions(p, q),
      nextReview |-> updatedNextReview(t, interval),
      lastReview |-> t,
      totalReviews |-> updatedTotalReviews(p, q),
      correctReviews |-> updatedCorrectReviews(p, q) ]

\* (mutant) correct looked at before skipped
reviewQualityCorrectFirst(correct, skipped) ==
    IF correct THEN 4 ELSE IF skipped THEN 0 ELSE 1

\* the quality recordReview derives from its arguments
reviewQuality(correct, skipped) ==
    IF skipped THEN 0 ELSE IF correct THEN 4 ELSE 1

----------------------------------------------------------------------------
(* The progress store *)

\* the phrase list the tests construct the scheduler with (ids, in list order)
phrases == <<1, 2, 3>>
PhraseIds == {phrases[i] : i \in DOMAIN phrases}

\* storage.getProgress(phraseId): the record, or none (here: the empty set)
getProgress(s, phraseId) == IF phraseId \in DOMAIN s THEN {s[phraseId]} ELSE {}

\* (mutant) the store replaced by the one record
saveProgressOnly(s, r) == [i \in {r.phraseId} |-> r]

\* storage.saveProgress(record): put, keyed by phraseId
saveProgress(s, r) ==
    [i \in DOMAIN s \cup {r.phraseId} |-> IF i = r.phraseId THEN r ELSE s[i]]

----------------------------------------------------------------------------
(* FuzzyMatcher.match: the defaults of its options *)

\* maxDistance = null, minSimilarity = 0.85, strictAccents = false
DefaultOptions ==
    [ maxDistance |-> Null, minSimilarity |-> DoubleOf(85, 100), strictAccents |-> FALSE ]

\* no store call has been logged, no quiz page is open, no service worker runs
PageIdle ==
    /\ log = <<>>
    /\ quiz = <<>>
    /\ worker = <<>>
    /\ overlay = <<>>

\* no call of the matcher is under way
NoMatcherCall ==
    /\ answer = <<>>
    /\ expected = <<>>
    /\ options = DefaultOptions
    /\ result = {}

----------------------------------------------------------------------------
(* The clock *)

\* the instants at which the clock is read
Times == {StartTime, StartTime + 1, StartTime + HoursPerDay}

\* time passes
Tick ==
    /\ \E t \in Times : t > now /\ now' = t
    /\ UNCHANGED <<progress, quality, store, call, ret, phraseList, next, stats, fuzzyVars,
                   pageVars>>

----------------------------------------------------------------------------
(* SpecSM2: one record taken through calculateNextReview calls of any quality *)

InitSM2 ==
    /\ now = StartTime
    /\ progress = createInitialProgress(phrases[1])
    /\ quality = {}
    /\ store = <<>>
    /\ call = <<>>
    /\ ret = {}
    /\ phraseList = phrases
    /\ next = {}
    /\ stats = {}
    /\ NoMatcherCall
    /\ PageIdle

Review(q) ==
    /\ progress.totalReviews < MaxReviews
    /\ progress' = calculateNextReview(progress, q, now)
    /\ quality' = {q}
    /\ UNCHANGED <<now, store, call, ret, phraseList, next, stats, fuzzyVars,
                   pageVars>>

NextSM2 == (\E q \in Qualities : Review(q)) \/ Tick

SpecSM2 == InitSM2 /\ [][NextSM2]_vars

----------------------------------------------------------------------------
(* Spec: the recordReview calls of one review session against the store *)

Init ==
    /\ now = StartTime
    /\ progress = createInitialProgress(phrases[1])
    /\ quality = {}
    /\ store = <<>>
    /\ call = <<>>
    /\ ret = {}
    /\ phraseList = phrases
    /\ next = {}
    /\ stats = {}
    /\ NoMatcherCall
    /\ PageIdle

\* the reviews recorded in the store
RECURSIVE SumReviews(_, _)
SumReviews(s, ids) ==
    IF ids = {} THEN 0
    ELSE LET i == CHOOSE j \in ids : TRUE
         IN  s[i].totalReviews + SumReviews(s, ids \ {i})
ReviewsMade == SumReviews(store, DOMAIN store)

\* the most recordReview calls under way at once
MaxCalls == 2

\* recordReview(phraseId, correct, skipped), up to its first await: the store is asked
\* for the record.  call holds the calls under way, oldest first.
recordReview(phraseId, correct, skipped) ==
    /\ Len(call) < MaxCalls
    /\ call' = Append(call, [ phraseId |-> phraseId, correct |-> correct,
                              skipped |-> skipped, at |-> "getProgress" ])
    /\ next' = {}
    /\ stats' = {}
    /\ UNCHANGED <<now, progress, quality, store, ret, phraseList, fuzzyVars, pageVars>>

\* the call's state once getProgress has resolved with found at time t: the record it
\* starts from, the quality, the updated record, and saveProgress asked for
reviewRead(c, found, t) ==
    LET start == IF found = {} THEN createInitialProgress(c.phraseId)
                 ELSE CHOOSE r \in found : TRUE
        q == reviewQuality(c.correct, c.skipped)
    IN  [ phraseId |-> c.phraseId, correct |-> c.correct, skipped |-> c.skipped,
          at |-> "saveProgress", progress |-> start, quality |-> q,
          updated |-> calculateNextReview(start, q, t) ]

\* getProgress of the oldest call that waits for it resolves
recordReviewRead ==
    /\ \E i \in DOMAIN call :
          /\ call[i].at = "getProgress"
          /\ \A j \in 1..(i - 1) : call[j].at # "getProgress"
          /\ call' = [call EXCEPT ![i] = reviewRead(call[i], getProgress(store, call[i].phraseId),
                                                    now)]
    /\ next' = {}
    /\ stats' = {}
    /\ UNCHANGED <<now, progress, quality, store, ret, phraseList, fuzzyVars, pageVars>>

\* saveProgress of the oldest call resolves: the updated record is in the store and the
\* call returns it
recordReviewSaved ==
    /\ call # <<>>
    /\ Head(call).at = "saveProgress"
    /\ store' = saveProgress(store, Head(call).updated)
    /\ call' = Tail(call)
    /\ ret' = {Head(call).updated}
    /\ next' = {}
    /\ stats' = {}
    /\ UNCHANGED <<now, progress, quality, phraseList, fuzzyVars, pageVars>>

Next ==
    \/ /\ ReviewsMade + Len(call) < MaxStoreReviews
       /\ \E id \in PhraseIds, correct \in BOOLEAN, skipped \in BOOLEAN :
             recordReview(id, correct, skipped)
    \/ recordReviewRead
    \/ recordReviewSaved
    \/ Tick

Spec == Init /\ [][Next]_vars

----------------------------------------------------------------------------
(* getNextPhrase.  A phrase is carried as its id; the snapshot is the sequence of
   records storage.getAllProgress() resolves to. *)

\* what Array.prototype.find returns when no element passes the test
Undefined == -2

\* storage.getAllProgress(): store.getAll(), the records in ascending key (phraseId) order
RECURSIVE getAllProgress(_)
getAllProgress(s) ==
    IF DOMAIN s = {} THEN <<>>
    ELSE LET first == CHOOSE i \in DOMAIN s : \A j \in DOMAIN s : i <= j
         IN  <<s[first]>> \o getAllProgress([i \in DOMAIN s \ {first} |-> s[i]])

\* this.phrases.find(p => p.id === phraseId)
find(list, phraseId) ==
    IF \E i \in DOMAIN list : list[i] = phraseId THEN phraseId ELSE Undefined

\* (mutant) every record whose time has come is due, reviewed with success or not
isDueByTime(p, t) == p.nextReview <= t

\* progress.nextReview <= now && progress.repetitions > 0
isDue(p, t) == p.nextReview <= t /\ p.repetitions > 0

\* the records the loop pushes to duePhrases, in snapshot order
duePhrases(all, t) == SelectSeq(all, LAMBDA p : isDue(p, t))

\* Array.prototype.sort is stable: x goes behind every entry whose dueTime is not larger
RECURSIVE insertByDueTime(_, _)
insertByDueTime(sorted, x) ==
    IF sorted = <<>> THEN <<x>>
    ELSE IF Head(sorted).nextReview <= x.nextReview
         THEN <<Head(sorted)>> \o insertByDueTime(Tail(sorted), x)
         ELSE <<x>> \o sorted

\* duePhrases.sort((a, b) => a.dueTime - b.dueTime)
RECURSIVE sortByDueTime(_)
sortByDueTime(due) ==
    IF due = <<>> THEN <<>>
    ELSE insertByDueTime(sortByDueTime(SubSeq(due, 1, Len(due) - 1)), due[Len(due)])

\* reviewedIds.has(id)
hasRecord(all, phraseId) == \E i \in DOMAIN all : all[i].phraseId = phraseId

\* (mutant) the phrases without a record, last of the list first
newPhrasesReversed(list, all) ==
    LET new == SelectSeq(list, LAMBDA id : ~hasRecord(all, id))
    IN  [i \in 1..Len(new) |-> new[Len(new) + 1 - i]]

\* this.phrases.filter(p => !reviewedIds.has(p.id))
newPhrases(list, all) == SelectSeq(list, LAMBDA id : ~hasRecord(all, id))

\* allProgress.reduce((min, p) => p.nextReview < min.nextReview ? p : min), from the left
RECURSIVE reduceNextDue(_, _)
reduceNextDue(min, rest) ==
    IF rest = <<>> THEN min
    ELSE reduceNextDue(IF Head(rest).nextReview < min.nextReview THEN Head(rest) ELSE min,
                       Tail(rest))

getNextPhrase(list, all, t) ==
    LET due == sortByDueTime(duePhrases(all, t))
        new == newPhrases(list, all)
    IN  IF Len(due) > 0 THEN find(list, due[1].phraseId)
        ELSE IF Len(new) > 0 THEN new[1]
        ELSE IF Len(all) > 0
             THEN find(list, reduceNextDue(Head(all), Tail(all)).phraseId)
             ELSE IF Len(list) > 0 THEN list[1] ELSE Null

----------------------------------------------------------------------------
(* getStats *)

\* double / integer, for a quotient of at least 2^-6
FDivInt(x, n) ==
    LET f == BigDivSmall(x, n)
    IN  RoundSticky(f.quot, f.rem # 0)

\* if (p.interval >= 21) stats.mastered++
isMastered(p) == p.interval >= 21

\* (mutant) dueNow counted as the due step of getNextPhrase selects
isDueNowLearned(p, t) == p.nextReview <= t /\ p.repetitions > 0

\* if (p.nextReview <= now) stats.dueNow++
isDueNow(p, t) == p.nextReview <= t

\* if (p.nextReview <= now + 24 * 60 * 60 * 1000) stats.dueToday++
isDueToday(p, t) == p.nextReview <= t + HoursPerDay

\* one pass of the for loop over allProgress: the counters and sums after record p
statsStep(acc, p, t) ==
    [ learned |-> acc.learned + 1,
      easeSum |-> FAdd(acc.easeSum, p.easeFactor),
      correctSum |-> acc.correctSum + p.correctReviews,
      reviewSum |-> acc.reviewSum + p.totalReviews,
      mastered |-> IF isMastered(p) THEN acc.mastered + 1 ELSE acc.mastered,
      dueNow |-> IF isDueNow(p, t) THEN acc.dueNow + 1 ELSE acc.dueNow,
      dueToday |-> IF isDueToday(p, t) THEN acc.dueToday + 1 ELSE acc.dueToday ]

\* the for loop over allProgress, in snapshot order
RECURSIVE statsLoop(_, _, _)
statsLoop(acc, all, t) ==
    IF all = <<>> THEN acc ELSE statsLoop(statsStep(acc, Head(all), t), Tail(all), t)

getStats(list, all, t) ==
    LET sums == statsLoop([ learned |-> 0, easeSum |-> BigZero, correctSum |-> 0,
                            reviewSum |-> 0, mastered |-> 0, dueNow |-> 0, dueToday |-> 0 ],
                          all, t)
    IN  [ totalPhrases |-> Len(list),
          learned |-> sums.learned,
          mastered |-> sums.mastered,
          dueNow |-> sums.dueNow,
          dueToday |-> sums.dueToday,
          averageEase |-> IF sums.learned > 0 THEN FDivInt(sums.easeSum, sums.learned)
                          ELSE BigZero,
          totalReviews |-> sums.reviewSum,
          accuracy |-> IF sums.reviewSum > 0 THEN DoubleOf(sums.correctSum, sums.reviewSum)
                       ELSE BigZero ]

----------------------------------------------------------------------------
(* SpecQueue: review sessions over the persistent store.  Every page load constructs
   the scheduler anew with the phrase list of data/phrases.json as it then is, over
   the records earlier sessions have left in the store. *)

\* SpecQueue: at most this many reviews are recorded in all
MaxQueueReviews == 3

\* the phrase lists a page load may find: none, the list of the tests, and an edited
\* list that has dropped phrase 2 and leads with phrase 3
PhraseLists == {<<>>, phrases, <<3, 1>>}

\* the instants at which SpecQueue reads the clock: the start, an hour on, and a day
\* and an hour on (a review of the start is then past due, one of an hour on just due)
QueueTimes == {StartTime, StartTime + 1, StartTime + HoursPerDay + 1}

InitQueue ==
    /\ now = StartTime
    /\ progress = createInitialProgress(phrases[1])
    /\ quality = {}
    /\ store = <<>>
    /\ call = <<>>
    /\ ret = {}
    /\ phraseList \in PhraseLists
    /\ next = {}
    /\ stats = {}
    /\ NoMatcherCall
    /\ PageIdle

\* new SpacedRepetition(storage, phrases) at a page load
Construct(list) ==
    /\ phraseList' = list
    /\ next' = {}
    /\ stats' = {}
    /\ UNCHANGED <<now, progress, quality, store, call, ret, fuzzyVars,
                   pageVars>>

\* await this.srs.getNextPhrase()
GetNextPhrase ==
    /\ next' = {getNextPhrase(phraseList, getAllProgress(store), now)}
    /\ stats' = {}
    /\ UNCHANGED <<now, progress, quality, store, call, ret, phraseList, fuzzyVars,
                   pageVars>>

\* await this.srs.getStats()
GetStats ==
    /\ stats' = {getStats(phraseList, getAllProgress(store), now)}
    /\ next' = {}
    /\ UNCHANGED <<now, progress, quality, store, call, ret, phraseList, fuzzyVars,
                   pageVars>>

\* time passes
TickQueue ==
    /\ \E t \in QueueTimes : t > now /\ now' = t
    /\ next' = {}
    /\ stats' = {}
    /\ UNCHANGED <<progress, quality, store, call, ret, phraseList, fuzzyVars,
                   pageVars>>

\* the outcomes the pages record: a right answer, a wrong one, a skip
ReviewOutcomes == { [correct |-> TRUE, skipped |-> FALSE],
                    [correct |-> FALSE, skipped |-> FALSE],
                    [correct |-> FALSE, skipped |-> TRUE] }

NextQueue ==
    \/ \E list \in PhraseLists : Construct(list)
    \/ /\ ReviewsMade + Len(call) < MaxQueueReviews
       /\ \E i \in DOMAIN phraseList, o \in ReviewOutcomes :
             recordReview(phraseList[i], o.correct, o.skipped)
    \/ recordReviewRead
    \/ recordReviewSaved
    \/ GetNextPhrase
    \/ TickQueue

SpecQueue == InitQueue /\ [][NextQueue]_vars

----------------------------------------------------------------------------
(* SpecStats: the statistics of the popup and the quiz page, over the records that
   reviews of the listed phrases leave *)

\* SpecStats: at most this many reviews are recorded in all (a phrase is mastered by
\* its fourth success, and one more review makes a second record)
MaxStatsReviews == MaxQueueReviews + 2

\* the phrases reviewed (the third stays new) and how: answered right or wrong
ReviewedIds == {phrases[1], phrases[2]}

\* a day passes
TickStats ==
    /\ now = StartTime
    /\ now' = StartTime + HoursPerDay
    /\ next' = {}
    /\ stats' = {}
    /\ UNCHANGED <<progress, quality, store, call, ret, phraseList, fuzzyVars,
                   pageVars>>

NextStats ==
    \/ /\ ReviewsMade + Len(call) < MaxStatsReviews
       /\ \E id \in ReviewedIds, correct \in BOOLEAN : recordReview(id, correct, FALSE)
    \/ recordReviewRead
    \/ recordReviewSaved
    \/ GetStats
    \/ TickStats

SpecStats == Init /\ [][NextStats]_vars

----------------------------------------------------------------------------
(* FuzzyMatcher.  A string is the sequence of its characters (UTF-16 code units),
   each written as a one-character string, or by the name of its code point
   ("U+2026", the ellipsis) where it is outside Latin-1. *)

\* the scheduler is as constructed and no call of it is under way
SchedulerIdle ==
    /\ now = StartTime
    /\ progress = createInitialProgress(phrases[1])
    /\ quality = {}
    /\ store = <<>>
    /\ call = <<>>
    /\ ret = {}
    /\ phraseList = phrases
    /\ next = {}
    /\ stats = {}
    /\ PageIdle

\* null and undefined: no strings, carried as sequences of a token that is no character
NullValue == <<"null">>
UndefinedValue == <<"undefined">>

\* the strings of at most n characters of the set chars
Strings(chars, n) == UNION {[1..k -> chars] : k \in 0..n}

\* !str: null, undefined and the empty string
isFalsy(str) == str \in {NullValue, UndefinedValue, <<>>}

\* String.prototype.toLowerCase on one character, for the letters used here
lowerOf(c) ==
    CASE c = "A" -> "a"
      [] c = "B" -> "b"
      [] c = "Á" -> "á"
      [] OTHER -> c

toLowerCase(str) == [i \in DOMAIN str |-> lowerOf(str[i])]

\* the white space that \s matches and trim removes: of it, the ASCII characters
WhiteSpace == {" ", "\t", "\n", "\r", "\f"}

RECURSIVE trimStart(_)
trimStart(str) ==
    IF str # <<>> /\ Head(str) \in WhiteSpace THEN trimStart(Tail(str)) ELSE str

RECURSIVE trimEnd(_)
trimEnd(str) ==
    IF str # <<>> /\ str[Len(str)] \in WhiteSpace
    THEN trimEnd(SubSeq(str, 1, Len(str) - 1))
    ELSE str

\* String.prototype.trim
trim(str) == trimEnd(trimStart(str))

\* the character class of /[¿¡?!.,;:'"()[\]{}…—–-]/g
Punctuation ==
    { "¿", "¡", "?", "!", ".", ",", ";", ":", "'", "\"", "(", ")", "[", "]", "{", "}",
      "U+2026", "U+2014", "U+2013", "-" }

\* .replace(/[¿¡?!.,;:'"()[\]{}…—–-]/g, '')
removePunctuation(str) == SelectSeq(str, LAMBDA c : c \notin Punctuation)

\* .replace(/\s+/g, ' '): every maximal run of white space becomes one space
RECURSIVE collapseSpaces(_)
collapseSpaces(str) ==
    IF str = <<>> THEN <<>>
    ELSE IF Head(str) \in WhiteSpace
         THEN <<" ">> \o collapseSpaces(trimStart(Tail(str)))
         ELSE <<Head(str)>> \o collapseSpaces(Tail(str))

\* (mutant) without the second trim
normalizeTrimmedOnce(str) ==
    IF isFalsy(str) THEN <<>>
    ELSE collapseSpaces(removePunctuation(trim(toLowerCase(str))))

normalize(str) ==
    IF isFalsy(str) THEN <<>>
    ELSE trim(collapseSpaces(removePunctuation(trim(toLowerCase(str)))))

----------------------------------------------------------------------------
(* SpecNormalize: normalize applied to any short string, to null and to undefined *)

\* the longest string given to normalize
MaxLen == 4

\* an upper-case and a lower-case letter, an accented capital, two punctuation marks,
\* a space and a tab
NormalizeChars == {"A", "a", "Á", "?", "-", " ", "\t"}

InitNormalize ==
    /\ SchedulerIdle
    /\ answer \in Strings(NormalizeChars, MaxLen) \cup {NullValue, UndefinedValue}
    /\ expected = <<>>
    /\ options = DefaultOptions
    /\ result = {}

\* FuzzyMatcher.normalize(answer)
NormalizeCall ==
    /\ result' = {normalize(answer)}
    /\ UNCHANGED <<now, progress, quality, store, call, ret, phraseList, next, stats,
                   pageVars, answer, expected, options>>

NextNormalize == NormalizeCall

SpecNormalize == InitNormalize /\ [][NextNormalize]_vars

----------------------------------------------------------------------------
(* levenshteinDistance.  Row i of the matrix is a sequence whose element j + 1 is
   matrix[i][j], for the columns j = 0 .. a.length. *)

\* Math.min of three numbers
MathMin(x, y, z) ==
    IF x <= y /\ x <= z THEN x ELSE IF y <= z THEN y ELSE z

\* (mutant) a differing character costs a substitution or an insertion, never a deletion
cellNoDeletion(same, diagonal, left, up) ==
    IF same THEN diagonal ELSE MathMin(diagonal + 1, left + 1, left + 1)

\* matrix[i][j] from matrix[i-1][j-1], matrix[i][j-1] and matrix[i-1][j]
cell(same, diagonal, left, up) ==
    IF same THEN diagonal ELSE MathMin(diagonal + 1, left + 1, up + 1)

\* row i up to column j, from row i - 1 and the character c = b.charAt(i - 1);
\* column 0 of row i is i
RECURSIVE matrixRow(_, _, _, _)
matrixRow(prev, a, c, j) ==
    IF j = 0 THEN <<prev[1] + 1>>
    ELSE LET row == matrixRow(prev, a, c, j - 1)
         IN  Append(row, cell(c = a[j], prev[j], row[j], prev[j + 1]))

\* rows 0 .. i of the fill; row 0 is 0, 1, .., a.length
RECURSIVE matrixRows(_, _, _)
matrixRows(a, b, i) ==
    IF i = 0 THEN [j \in 1..(Len(a) + 1) |-> j - 1]
    ELSE matrixRow(matrixRows(a, b, i - 1), a, b[i], Len(a))

levenshteinDistance(a, b) ==
    IF Len(a) = 0 THEN Len(b)
    ELSE IF Len(b) = 0 THEN Len(a)
    ELSE matrixRows(a, b, Len(b))[Len(a) + 1]

----------------------------------------------------------------------------
(* SpecLevenshtein: levenshteinDistance applied to any two short words *)

\* the longest word given to levenshteinDistance
MaxWord == 3

\* the letters of the words
Letters == {"a", "b", "c"}

InitLevenshtein ==
    /\ SchedulerIdle
    /\ answer \in Strings(Letters, MaxWord)
    /\ expected \in Strings(Letters, MaxWord)
    /\ options = DefaultOptions
    /\ result = {}

\* FuzzyMatcher.levenshteinDistance(answer, expected)
LevenshteinCall ==
    /\ result' = {levenshteinDistance(answer, expected)}
    /\ UNCHANGED <<now, progress, quality, store, call, ret, phraseList, next, stats,
                   pageVars, answer, expected, options>>

NextLevenshtein == LevenshteinCall

SpecLevenshtein == InitLevenshtein /\ [][NextLevenshtein]_vars

----------------------------------------------------------------------------
(* match *)

\* the combining acute accent
CombiningAcute == "U+0301"

\* the characters /[\u0300-\u036f]/ matches: of them, the acute accent
CombiningMarks == {CombiningAcute}

\* String.prototype.normalize('NFD') on one character, for the letters used here
nfdOf(c) ==
    CASE c = "á" -> <<"a", CombiningAcute>>
      [] c = "Á" -> <<"A", CombiningAcute>>
      [] OTHER -> <<c>>

RECURSIVE nfd(_)
nfd(str) == IF str = <<>> THEN <<>> ELSE nfdOf(Head(str)) \o nfd(Tail(str))

\* str.normalize('NFD').replace(/[\u0300-\u036f]/g, '')
removeAccents(str) == SelectSeq(nfd(str), LAMBDA c : c \notin CombiningMarks)

\* (mutant) the accents are kept whatever the options
preparedAccentsKept(str, opts) == normalize(str)

\* what match compares: the normalised string, without accents unless strictAccents
prepared(str, opts) ==
    IF ~opts.strictAccents THEN removeAccents(normalize(str)) ELSE normalize(str)

\* Math.max of two numbers
MathMax2(x, y) == IF x >= y THEN x ELSE y

\* (mutant) one of the two gates is enough
scoredEitherGate(normalizedAnswer, normalizedExpected, opts) ==
    LET distance == levenshteinDistance(normalizedAnswer, normalizedExpected)
        maxLen == MathMax2(Len(normalizedAnswer), Len(normalizedExpected))
        similarity == FSub(DoubleOf(1, 1), DoubleOf(distance, maxLen))
        allowedDistance == IF opts.maxDistance # Null THEN opts.maxDistance
                           ELSE Len(normalizedExpected) \div 5
    IN  [ matches |-> distance <= allowedDistance
                      \/ BigCmp(similarity, opts.minSimilarity) >= 0,
          similarity |-> similarity,
          distance |-> distance,
          exact |-> FALSE ]

\* the result for two different, non-empty prepared strings
scored(normalizedAnswer, normalizedExpected, opts) ==
    LET distance == levenshteinDistance(normalizedAnswer, normalizedExpected)
        maxLen == MathMax2(Len(normalizedAnswer), Len(normalizedExpected))
        similarity == FSub(DoubleOf(1, 1), DoubleOf(distance, maxLen))
        allowedDistance == IF opts.maxDistance # Null THEN opts.maxDistance
                           ELSE Len(normalizedExpected) \div 5
    IN  [ matches |-> distance <= allowedDistance
                      /\ BigCmp(similarity, opts.minSimilarity) >= 0,
          similarity |-> similarity,
          distance |-> distance,
          exact |-> FALSE ]

\* (mutant) an empty answer is turned down before the strings are compared
comparedEmptyFirst(normalizedAnswer, normalizedExpected, opts) ==
    IF Len(normalizedAnswer) = 0
    THEN [ matches |-> FALSE, similarity |-> BigZero, exact |-> FALSE ]
    ELSE IF normalizedAnswer = normalizedExpected
         THEN [ matches |-> TRUE, similarity |-> DoubleOf(1, 1), exact |-> TRUE ]
         ELSE scored(normalizedAnswer, normalizedExpected, opts)

\* (mutant) an empty answer is scored like any other
comparedNoEmptyCheck(normalizedAnswer, normalizedExpected, opts) ==
    IF normalizedAnswer = normalizedExpected
    THEN [ matches |-> TRUE, similarity |-> DoubleOf(1, 1), exact |-> TRUE ]
    ELSE scored(normalizedAnswer, normalizedExpected, opts)

\* the three outcomes of match, on the prepared strings
compared(normalizedAnswer, normalizedExpected, opts) ==
    IF normalizedAnswer = normalizedExpected
    THEN [ matches |-> TRUE, similarity |-> DoubleOf(1, 1), exact |-> TRUE ]
    ELSE IF Len(normalizedAnswer) = 0
         THEN [ matches |-> FALSE, similarity |-> BigZero, exact |-> FALSE ]
         ELSE scored(normalizedAnswer, normalizedExpected, opts)

match(ans, exp, opts) == compared(prepared(ans, opts), prepared(exp, opts), opts)

----------------------------------------------------------------------------
(* SpecMatch: match applied to any two short strings under any options *)

\* the longest string given to match
MaxPhrase == 2

\* a capital, an accented letter, a punctuation mark, a space and a combining accent
MatchChars == {"A", "á", "?", " ", CombiningAcute}

\* the options: maxDistance null (the default) or 1; minSimilarity the default or 0
Options ==
    [ maxDistance : {Null, 1},
      minSimilarity : {DoubleOf(85, 100), BigZero},
      strictAccents : BOOLEAN ]

InitMatch ==
    /\ SchedulerIdle
    /\ answer \in Strings(MatchChars, MaxPhrase)
    /\ expected \in Strings(MatchChars, MaxPhrase)
    /\ options \in Options
    /\ result = {}

\* FuzzyMatcher.match(answer, expected, options)
MatchCall ==
    /\ result' = {match(answer, expected, options)}
    /\ UNCHANGED <<now, progress, quality, store, call, ret, phraseList, next, stats,
                   pageVars, answer, expected, options>>

NextMatch == MatchCall

SpecMatch == InitMatch /\ [][NextMatch]_vars

----------------------------------------------------------------------------
(* getFeedback *)

\* String.prototype.startsWith
startsWith(str, prefix) ==
    Len(prefix) <= Len(str) /\ SubSeq(str, 1, Len(prefix)) = prefix

\* (mutant) the similarity test ahead of the prefix test
feedbackTypeCloseFirst(r, normalizedAnswer, normalizedExpected) ==
    IF r.matches THEN "correct"
    ELSE IF BigCmp(r.similarity, DoubleOf(7, 10)) >= 0 THEN "close"
    ELSE IF startsWith(normalizedExpected, normalizedAnswer) /\ Len(normalizedAnswer) >= 3
         THEN "partial"
         ELSE "incorrect"

\* the type of the feedback, from the result of match and the normalised strings
feedbackType(r, normalizedAnswer, normalizedExpected) ==
    IF r.matches THEN "correct"
    ELSE IF startsWith(normalizedExpected, normalizedAnswer) /\ Len(normalizedAnswer) >= 3
         THEN "partial"
         ELSE IF BigCmp(r.similarity, DoubleOf(7, 10)) >= 0 THEN "close"
         ELSE "incorrect"

\* the message that goes with the type
feedbackMessage(type, r) ==
    CASE type = "correct" -> IF r.exact THEN "Perfect!" ELSE "Close enough!"
      [] type = "partial" -> "Keep going..."
      [] type = "close" -> "Almost! Check your spelling."
      [] OTHER -> "Try again"

getFeedback(ans, exp) ==
    LET r == match(ans, exp, DefaultOptions)
        type == feedbackType(r, normalize(ans), normalize(exp))
    IN  [ type |-> type, message |-> feedbackMessage(type, r) ]

----------------------------------------------------------------------------
(* SpecTyping: an answer typed character by character and matched against a phrase;
   SpecFeedback: the same answer given to getFeedback *)

\* the longest answer typed
MaxTyped == 7

\* the letters typed
TypedChars == {"a", "b"}

\* the phrases asked for: of 4 normalised characters (5 with its question mark), of 5
\* and of 7 (9 with its marks)
TypedPhrases ==
    { <<"a", "b", "a", "b", "?">>,
      <<"a", "b", "a", "b", "a">>,
      <<"¿", "a", "b", "b", "a", "b", "a", "a", "?">> }

\* the options: maxDistance null, 0 or 2; minSimilarity the default or 0.7
TypingOptions ==
    [ maxDistance : {Null, 0, 2},
      minSimilarity : {DoubleOf(85, 100), DoubleOf(7, 10)},
      strictAccents : {FALSE} ]

InitTyping ==
    /\ SchedulerIdle
    /\ answer = <<>>
    /\ expected \in TypedPhrases
    /\ options \in TypingOptions
    /\ result = {}

InitFeedback ==
    /\ SchedulerIdle
    /\ answer = <<>>
    /\ expected \in TypedPhrases
    /\ options = DefaultOptions
    /\ result = {}

\* the user types a character into the answer field
Type(c) ==
    /\ Len(answer) < MaxTyped
    /\ answer' = Append(answer, c)
    /\ result' = {}
    /\ UNCHANGED <<now, progress, quality, store, call, ret, phraseList, next, stats,
                   pageVars, expected, options>>

\* FuzzyMatcher.getFeedback(answer, expected)
FeedbackCall ==
    /\ result' = {getFeedback(answer, expected)}
    /\ UNCHANGED <<now, progress, quality, store, call, ret, phraseList, next, stats,
                   pageVars, answer, expected, options>>

NextTyping == (\E c \in TypedChars : Type(c)) \/ MatchCall

SpecTyping == InitTyping /\ [][NextTyping]_vars

NextFeedback == (\E c \in TypedChars : Type(c)) \/ FeedbackCall

SpecFeedback == InitFeedback /\ [][NextFeedback]_vars

----------------------------------------------------------------------------
(* SpecTolerance: two copies of a phrase, each varied in letter case, punctuation,
   amount of white space and accents, and matched *)

\* the longest varied string
MaxVaried == 4

\* the phrases varied
BasePhrases == { <<"a", " ", "b">> }

\* the marks inserted
VariedMarks == {"?"}

\* the options: the defaults, and the defaults with strictAccents
ToleranceOptions ==
    [ maxDistance : {Null}, minSimilarity : {DoubleOf(85, 100)}, strictAccents : BOOLEAN ]

\* the other case of a letter
swapCase(c) ==
    CASE c = "a" -> "A"
      [] c = "A" -> "a"
      [] c = "b" -> "B"
      [] c = "B" -> "b"
      [] c = "á" -> "Á"
      [] c = "Á" -> "á"
      [] OTHER -> c

\* the letter with its acute accent added or taken away
toggleAccent(c) ==
    CASE c = "a" -> "á"
      [] c = "á" -> "a"
      [] c = "A" -> "Á"
      [] c = "Á" -> "A"
      [] OTHER -> c

\* str with c put in after its first i characters
insertAt(str, i, c) == SubSeq(str, 1, i) \o <<c>> \o SubSeq(str, i + 1, Len(str))

\* a space put in there lengthens leading, trailing or inner white space
spaceAllowedAt(str, i) ==
    \/ i = 0
    \/ i = Len(str)
    \/ str[i] \in WhiteSpace
    \/ str[i + 1] \in WhiteSpace

\* the strings one tolerated difference away from str
Variations(str) ==
    { [str EXCEPT ![i] = swapCase(str[i])] : i \in DOMAIN str }
    \cup { [str EXCEPT ![i] = toggleAccent(str[i])] : i \in DOMAIN str }
    \cup { insertAt(str, i, c) : i \in {k \in 0..Len(str) : Len(str) < MaxVaried},
                                 c \in VariedMarks }
    \cup { insertAt(str, i, " ") :
             i \in {k \in 0..Len(str) : Len(str) < MaxVaried /\ spaceAllowedAt(str, k)} }

InitTolerance ==
    /\ SchedulerIdle
    /\ answer \in BasePhrases
    /\ expected = answer
    /\ options \in ToleranceOptions
    /\ result = {}

\* the answer is varied
VaryAnswer ==
    /\ \E str \in Variations(answer) \ {answer} : answer' = str
    /\ result' = {}
    /\ UNCHANGED <<now, progress, quality, store, call, ret, phraseList, next, stats,
                   pageVars, expected, options>>

\* the expected phrase is varied
VaryExpected ==
    /\ \E str \in Variations(expected) \ {expected} : expected' = str
    /\ result' = {}
    /\ UNCHANGED <<now, progress, quality, store, call, ret, phraseList, next, stats,
                   pageVars, answer, options>>

NextTolerance == VaryAnswer \/ VaryExpected \/ MatchCall

SpecTolerance == InitTolerance /\ [][NextTolerance]_vars

----------------------------------------------------------------------------
(* SpecStore: saveProgress, clearAll, getProgress and getAllProgress called on the
   progress store in any order *)

\* the most calls logged
MaxStoreCalls == 4

\* the records saved: the ones of the storage tests, for three phrases, before and after
\* an update
StoreRecords ==
    { [createInitialProgress(id) EXCEPT !.interval = n, !.repetitions = IF n = 1 THEN 1 ELSE 2,
                                        !.totalReviews = 1, !.correctReviews = 1] :
        id \in PhraseIds, n \in {1, 6} }

\* (mutant) nothing is cleared
clearNothing(s) == s

\* storage.clearAll(): store.clear()
clearAll(s) == <<>>

\* storage.saveProgress(record)
SaveProgress(record) ==
    /\ Len(log) < MaxStoreCalls
    /\ store' = saveProgress(store, record)
    /\ log' = Append(log, [op |-> "saveProgress", record |-> record])
    /\ ret' = {}
    /\ UNCHANGED <<now, progress, quality, call, phraseList, next, stats, fuzzyVars,
                   quiz, worker, overlay>>

\* storage.clearAll()
ClearAll ==
    /\ Len(log) < MaxStoreCalls
    /\ store' = clearAll(store)
    /\ log' = Append(log, [op |-> "clearAll"])
    /\ ret' = {}
    /\ UNCHANGED <<now, progress, quality, call, phraseList, next, stats, fuzzyVars,
                   quiz, worker, overlay>>

\* storage.getProgress(phraseId): what it resolves to (no record: null, here {})
GetProgress(phraseId) ==
    /\ ret' = {[ op |-> "getProgress", phraseId |-> phraseId,
                 value |-> getProgress(store, phraseId) ]}
    /\ UNCHANGED <<now, progress, quality, store, call, phraseList, next, stats, fuzzyVars,
                   pageVars>>

\* storage.getAllProgress(): what it resolves to
GetAllProgress ==
    /\ ret' = {[ op |-> "getAllProgress", value |-> getAllProgress(store) ]}
    /\ UNCHANGED <<now, progress, quality, store, call, phraseList, next, stats, fuzzyVars,
                   pageVars>>

NextStore ==
    \/ \E record \in StoreRecords : SaveProgress(record)
    \/ ClearAll
    \/ \E id \in PhraseIds : GetProgress(id)
    \/ GetAllProgress

SpecStore == Init /\ [][NextStore]_vars

----------------------------------------------------------------------------
(* SpecAwait: recordReview step by step, each of its two store requests resolving or
   rejecting, one call at a time.  call holds the call made last: its arguments, the
   await it is at, and the stored record when it was made. *)

\* the most reviews written
MaxAwaitReviews == 2

\* the errors a store request rejects with (request.error)
StoreErrors == {"UnknownError", "QuotaExceededError"}

\* (mutant) the rejection replaced by an error of the scheduler's own
awaitRejectedMasked(error) == [ threw |-> "Error" ]

\* await of a rejected promise, with no try around it: the call rejects with the reason
awaitRejected(error) == [ threw |-> error ]

\* recordReview(phraseId, correct, skipped) is called: storage.getProgress is requested
ReviewCalled(phraseId, correct, skipped) ==
    /\ ReviewsMade < MaxAwaitReviews
    /\ \A i \in DOMAIN call : call[i].at \in {"returned", "threw"}
    /\ call' = <<[ phraseId |-> phraseId, correct |-> correct, skipped |-> skipped,
                  at |-> "getProgress", before |-> getProgress(store, phraseId) ]>>
    /\ ret' = {}
    /\ UNCHANGED <<now, progress, quality, store, phraseList, next, stats, fuzzyVars,
                   pageVars>>

\* getProgress resolves: the record is updated and storage.saveProgress is requested
GetProgressResolves ==
    \E c \in {call[i] : i \in DOMAIN call} :
        LET found == getProgress(store, c.phraseId)
            start == IF found = {} THEN createInitialProgress(c.phraseId)
                     ELSE CHOOSE r \in found : TRUE
            q == reviewQuality(c.correct, c.skipped)
        IN  /\ c.at = "getProgress"
            /\ quality' = {q}
            /\ call' = <<[ phraseId |-> c.phraseId, correct |-> c.correct,
                          skipped |-> c.skipped, at |-> "saveProgress",
                          before |-> c.before,
                          updated |-> calculateNextReview(start, q, now) ]>>
            /\ UNCHANGED <<now, progress, store, ret, phraseList, next, stats, fuzzyVars,
                           pageVars>>

\* getProgress rejects: recordReview rejects
GetProgressRejects(error) ==
    \E c \in {call[i] : i \in DOMAIN call} :
        /\ c.at = "getProgress"
        /\ call' = <<[ phraseId |-> c.phraseId, correct |-> c.correct,
                      skipped |-> c.skipped, at |-> "threw", before |-> c.before,
                      error |-> error ]>>
        /\ ret' = {awaitRejected(error)}
        /\ UNCHANGED <<now, progress, quality, store, phraseList, next, stats, fuzzyVars,
                       pageVars>>

\* saveProgress resolves: the record is in the store
SaveProgressResolves ==
    \E c \in {call[i] : i \in DOMAIN call} :
        /\ c.at = "saveProgress"
        /\ store' = saveProgress(store, c.updated)
        /\ call' = <<[c EXCEPT !.at = "saved"]>>
        /\ UNCHANGED <<now, progress, quality, ret, phraseList, next, stats, fuzzyVars,
                       pageVars>>

\* saveProgress rejects: nothing is written and recordReview rejects
SaveProgressRejects(error) ==
    \E c \in {call[i] : i \in DOMAIN call} :
        /\ c.at = "saveProgress"
        /\ call' = <<[ phraseId |-> c.phraseId, correct |-> c.correct,
                      skipped |-> c.skipped, at |-> "threw", before |-> c.before,
                      error |-> error ]>>
        /\ ret' = {awaitRejected(error)}
        /\ UNCHANGED <<now, progress, quality, store, phraseList, next, stats, fuzzyVars,
                       pageVars>>

\* return updated
ReviewReturns ==
    \E c \in {call[i] : i \in DOMAIN call} :
        /\ c.at = "saved"
        /\ call' = <<[c EXCEPT !.at = "returned"]>>
        /\ ret' = {[ value |-> c.updated ]}
        /\ UNCHANGED <<now, progress, quality, store, phraseList, next, stats, fuzzyVars,
                       pageVars>>

NextAwait ==
    \/ \E id \in PhraseIds, correct \in BOOLEAN, skipped \in BOOLEAN :
          ReviewCalled(id, correct, skipped)
    \/ GetProgressResolves
    \/ \E error \in StoreErrors : GetProgressRejects(error)
    \/ SaveProgressResolves
    \/ \E error \in StoreErrors : SaveProgressRejects(error)
    \/ ReviewReturns
    \/ Tick

SpecAwait == Init /\ [][NextAwait]_vars

----------------------------------------------------------------------------
(* SpecQuiz: the quiz page (QuizController of quiz.js, BlockController of block.js)
   after init(), driven by submit and skip events, the store requests and the
   chrome.storage.local.set calls it waits for resolving, and the firing of its timers.
   log holds the user's events so far.  A page that has set location.href is still
   there until the browser has the new page: its handlers and timers may still run. *)

\* the most user events
MaxQuizEvents == 3

\* the settings' defaults, in minutes, and the bypass of the block page, in ms
CorrectCooldownMin == 10
IncorrectCooldownMin == 3
MsPerMinute == 60000
BlockBypassMs == 5000

\* the text of each phrase
phraseText(phraseId) ==
    CASE phraseId = 1 -> <<"A", "b", "?">>
      [] phraseId = 2 -> <<"á", " ", "b">>
      [] OTHER -> <<"b", "a">>

\* what the user may have in the answer field on submitting
QuizAnswers == { <<" ">>, <<"a", "b">>, <<"a", " ", "b">>, <<"b", "a">> }

\* the phrases that have an image: none of them, or the first and the third
ImageSets == { {}, {1, 3} }

\* the page as init() leaves it.  awaiting: the recordReview calls under way, oldest
\* first, each with the handler that awaits it; loading: the loadNextPhrase calls that
\* wait for getNextPhrase; sets: the chrome.storage.local.set calls not yet answered
InitialPage(controller, isTestMode, framed, images, phrase) ==
    [ controller |-> controller,
      isTestMode |-> isTestMode,
      framed |-> framed,
      images |-> images,
      currentPhrase |-> phrase,
      attempts |-> 0,
      loads |-> 1,
      awaiting |-> <<>>,
      loading |-> 0,
      revealTimer |-> "none",
      leaving |-> FALSE,
      leaveTimers |-> <<>>,
      sets |-> <<>>,
      posted |-> <<>>,
      bypassUntil |-> {},
      location |-> "quiz.html" ]

\* (mutant) the scheduler's choice presented whether it has an image or not
nextPhrasesChosen(images, s, t) == {getNextPhrase(phraseList, getAllProgress(s), t)}

\* loadNextPhrase once getNextPhrase has resolved over the store s at time t: the
\* phrases it may make current
nextPhrases(images, s, t) ==
    LET imagePhrases == SelectSeq(phraseList, LAMBDA id : id \in images)
        chosen == getNextPhrase(phraseList, getAllProgress(s), t)
    IN  IF Len(imagePhrases) > 0
        THEN IF chosen \in images THEN {chosen}
             ELSE {imagePhrases[i] : i \in DOMAIN imagePhrases}
        ELSE {chosen}

\* loadNextPhrase, up to its await: getNextPhrase is asked for
loadNextPhrase(q) == [q EXCEPT !.loading = @ + 1]

\* loadNextPhrase, from its await on: phrase is made current and, if there is one, the
\* attempts start again
nextPhraseLoaded(q, phrase) ==
    IF phrase \in {Null, Undefined}
    THEN [q EXCEPT !.loading = @ - 1, !.currentPhrase = phrase, !.loads = @ + 1]
    ELSE [q EXCEPT !.loading = @ - 1, !.currentPhrase = phrase, !.attempts = 0,
                   !.loads = @ + 1]

\* dismiss: the page starts leaving and a 300 ms timer is set
dismiss(q, cooldownMs) ==
    [q EXCEPT !.leaving = TRUE, !.leaveTimers = Append(@, cooldownMs)]

\* clearTimeout(this.revealTimer); this.revealTimer = setTimeout(callback, ...)
setRevealTimer(q, callback) == [q EXCEPT !.revealTimer = callback]

\* await this.srs.recordReview(...): recordReview asks the store for the record and the
\* rest of the handler waits for the review.  read is the record once getProgress has
\* resolved, with the record made of it.
awaitReview(q, handler, correct, skipped) ==
    [q EXCEPT !.awaiting =
        Append(@, [ handler |-> handler, phraseId |-> q.currentPhrase,
                    correct |-> correct, skipped |-> skipped, read |-> {} ])]

\* onWrong, up to its await
onWrong(q) ==
    IF q.controller = "quiz" /\ ~q.isTestMode
    THEN awaitReview(q, "onWrong", FALSE, FALSE)
    ELSE IF q.attempts >= 3
         THEN awaitReview(setRevealTimer(q, "hideReveal"), "none", FALSE, FALSE)
         ELSE setRevealTimer(q, "hideReveal")

\* submit, answer being the value of the answer field
submit(q, ans) ==
    IF Len(trim(ans)) = 0 THEN q
    ELSE LET counted == [q EXCEPT !.attempts = @ + 1]
         IN  IF match(trim(ans), phraseText(q.currentPhrase), DefaultOptions).matches
             THEN awaitReview(counted, "onCorrect", TRUE, FALSE)
             ELSE onWrong(counted)

\* the rest of a handler once its review is recorded, up to its next await
resumed(q, handler) ==
    CASE handler = "onCorrect" ->
            IF q.controller = "quiz"
            THEN setRevealTimer(q, IF q.isTestMode THEN "loadNextPhrase"
                                   ELSE "dismissCorrect")
            ELSE IF q.isTestMode THEN loadNextPhrase(q)
                 ELSE dismiss(q, BlockBypassMs)
      [] handler = "onWrong" -> setRevealTimer(q, "dismissIncorrect")
      [] handler = "skip" ->
            IF q.isTestMode THEN loadNextPhrase(q)
            ELSE dismiss(q, IF q.controller = "quiz" THEN IncorrectCooldownMin * MsPerMinute
                            ELSE BlockBypassMs)
      [] OTHER -> q

\* the callback of the reveal timer, up to its await
revealTimerFired(q) ==
    LET cleared == [q EXCEPT !.revealTimer = "none"]
    IN  CASE q.revealTimer = "loadNextPhrase" -> loadNextPhrase(cleared)
          [] q.revealTimer = "dismissCorrect" ->
                dismiss(cleared, CorrectCooldownMin * MsPerMinute)
          [] q.revealTimer = "dismissIncorrect" ->
                dismiss(cleared, IncorrectCooldownMin * MsPerMinute)
          [] OTHER -> cleared

\* the callback of the 300 ms timer of dismiss, at time t: the message is posted to the
\* parent window, or chrome.storage.local.set is called
leaveTimerFired(q, t) ==
    LET cooldownMs == Head(q.leaveTimers)
        left == [q EXCEPT !.leaveTimers = Tail(@)]
    IN  IF q.controller = "quiz" /\ q.framed
        THEN [left EXCEPT !.posted =
                 Append(@, [ type |-> "HABLA_QUIZ_COMPLETE", cooldownMs |-> cooldownMs ])]
        ELSE [left EXCEPT !.sets = Append(@, [ now |-> t, plusMs |-> cooldownMs ])]

\* the callback of chrome.storage.local.set: bypassUntil is stored, location.href is set
bypassStored(q) ==
    [q EXCEPT !.sets = Tail(@), !.bypassUntil = {Head(q.sets)},
              !.location = "https://news.google.com"]

InitQuiz ==
    /\ now = StartTime
    /\ progress = createInitialProgress(phrases[1])
    /\ quality = {}
    /\ store = <<>>
    /\ call = <<>>
    /\ ret = {}
    /\ phraseList = phrases
    /\ next = {}
    /\ stats = {}
    /\ NoMatcherCall
    /\ log = <<>>
    /\ worker = <<>>
    /\ overlay = <<>>
    /\ \E controller \in {"quiz", "block"}, isTestMode \in BOOLEAN, framed \in BOOLEAN,
          images \in ImageSets :
          /\ framed => controller = "quiz"
          /\ \E phrase \in nextPhrases(images, <<>>, StartTime) :
                quiz = InitialPage(controller, isTestMode, framed, images, phrase)

\* the user submits (the button, or Enter in the answer field)
Submit(ans) ==
    /\ Len(log) < MaxQuizEvents
    /\ quiz' = submit(quiz, ans)
    /\ log' = Append(log, [ event |-> "submit", answer |-> ans,
                            phraseId |-> quiz.currentPhrase, loads |-> quiz.loads ])
    /\ UNCHANGED <<schedulerVars, fuzzyVars, worker, overlay>>

\* the user clicks the skip button
Skip ==
    /\ Len(log) < MaxQuizEvents
    /\ quiz' = awaitReview(quiz, "skip", FALSE, TRUE)
    /\ log' = Append(log, [ event |-> "skip", answer |-> <<>>,
                            phraseId |-> quiz.currentPhrase, loads |-> quiz.loads ])
    /\ UNCHANGED <<schedulerVars, fuzzyVars, worker, overlay>>

\* getProgress of the oldest review that has not read resolves: recordReview has the
\* record it starts from (a fresh one if the phrase has none), makes the updated record
\* of it and asks the store to save it
ReviewReads ==
    \E i \in DOMAIN quiz.awaiting :
        /\ quiz.awaiting[i].read = {}
        /\ \A j \in 1..(i - 1) : quiz.awaiting[j].read # {}
        /\ LET c == quiz.awaiting[i]
               found == getProgress(store, c.phraseId)
               start == IF found = {} THEN createInitialProgress(c.phraseId)
                        ELSE CHOOSE r \in found : TRUE
               updated == calculateNextReview(start, reviewQuality(c.correct, c.skipped), now)
           IN  quiz' = [quiz EXCEPT !.awaiting[i].read =
                                       {[ progress |-> start, updated |-> updated ]}]
        /\ UNCHANGED <<schedulerVars, fuzzyVars, log, worker, overlay>>

\* saveProgress of the oldest review resolves: the review is recorded and the handler
\* goes on to its next await
ReviewCompletes ==
    /\ quiz.awaiting # <<>>
    /\ Head(quiz.awaiting).read # {}
    /\ LET c == Head(quiz.awaiting)
           made == CHOOSE r \in c.read : TRUE
       IN  /\ store' = saveProgress(store, made.updated)
           /\ quiz' = resumed([quiz EXCEPT !.awaiting = Tail(@)], c.handler)
    /\ UNCHANGED <<now, progress, quality, call, ret, phraseList, next, stats, fuzzyVars,
                   log, worker, overlay>>

\* getNextPhrase of a loadNextPhrase call resolves: the next phrase is made current
NextPhraseLoaded ==
    /\ quiz.loading > 0
    /\ \E phrase \in nextPhrases(quiz.images, store, now) :
          quiz' = nextPhraseLoaded(quiz, phrase)
    /\ UNCHANGED <<schedulerVars, fuzzyVars, log, worker, overlay>>

\* the reveal timer fires
RevealTimerFires ==
    /\ quiz.revealTimer # "none"
    /\ quiz' = revealTimerFired(quiz)
    /\ UNCHANGED <<schedulerVars, fuzzyVars, log, worker, overlay>>

\* the 300 ms timer of dismiss fires
LeaveTimerFires ==
    /\ quiz.leaveTimers # <<>>
    /\ quiz' = leaveTimerFired(quiz, now)
    /\ UNCHANGED <<schedulerVars, fuzzyVars, log, worker, overlay>>

\* the oldest chrome.storage.local.set is answered
BypassStored ==
    /\ quiz.sets # <<>>
    /\ quiz' = bypassStored(quiz)
    /\ UNCHANGED <<schedulerVars, fuzzyVars, log, worker, overlay>>

NextQuiz ==
    \/ \E ans \in QuizAnswers : Submit(ans)
    \/ Skip
    \/ ReviewReads
    \/ ReviewCompletes
    \/ NextPhraseLoaded
    \/ RevealTimerFires
    \/ LeaveTimerFires
    \/ BypassStored

SpecQuiz == InitQuiz /\ [][NextQuiz]_vars

----------------------------------------------------------------------------
(* SpecBypass: the service worker (background.js).  worker holds bypassUntil of
   chrome.storage.local, whether the dynamic redirect rule is installed, the timers set
   (a bag of due times: each setTimeout is a timer of its own) and the storage changes
   not yet given to the onChanged listener;
   log holds the values written to bypassUntil.  Here the clock counts hours, and a
   cooldown is a whole number of hours. *)

\* the most writes of bypassUntil
MaxBypassWrites == 3

\* the hours the clock runs for
MaxBypassHours == 3

\* the cooldowns written, in hours (0: a zero cooldown)
Cooldowns == {0, 1, 2}

\* the instants of the clock
BypassInstants == StartTime .. StartTime + MaxBypassHours

\* chrome.storage.local.set({ bypassUntil: value }): the value is stored and, if it
\* differs from the stored one, the change is queued for the onChanged listeners
stored(w, value) ==
    IF w.bypassUntil = value THEN w
    ELSE [w EXCEPT !.bypassUntil = value, !.changes = Append(@, value)]

\* installRedirectRule(): updateDynamicRules removes rule 100 and adds it
installRedirectRule(w) == [w EXCEPT !.rule = TRUE]

\* removeRedirectRule(): updateDynamicRules removes rule 100
removeRedirectRule(w) == [w EXCEPT !.rule = FALSE]

\* (mutant) the rule removed for a bypass and no timer set to put it back
onChangedNoTimer(w, bypassUntil, t) ==
    IF bypassUntil # 0 /\ bypassUntil > t
    THEN removeRedirectRule(w)
    ELSE installRedirectRule(w)

\* the storage.onChanged listener, given the new value of bypassUntil at time t
onChanged(w, bypassUntil, t) ==
    IF bypassUntil # 0 /\ bypassUntil > t
    THEN LET delay == bypassUntil - t
         IN  [removeRedirectRule(w) EXCEPT !.timers = @ (+) SetToBag({t + delay})]
    ELSE installRedirectRule(w)

\* the runtime.onInstalled listener
onInstalled(w, reason) ==
    installRedirectRule(IF reason = "install" THEN stored(w, 0) ELSE w)

\* the worker once the extension is installed and the change of bypassUntil (from
\* nothing to 0) has been given to the listener
InstalledWorker ==
    LET fresh == [ bypassUntil |-> Undefined, rule |-> FALSE, timers |-> EmptyBag,
                   changes |-> <<>> ]
        installed == onInstalled(fresh, "install")
    IN  onChanged([installed EXCEPT !.changes = Tail(@)], Head(installed.changes), StartTime)

InitBypass ==
    /\ now = StartTime
    /\ progress = createInitialProgress(phrases[1])
    /\ quality = {}
    /\ store = <<>>
    /\ call = <<>>
    /\ ret = {}
    /\ phraseList = phrases
    /\ next = {}
    /\ stats = {}
    /\ NoMatcherCall
    /\ log = <<>>
    /\ quiz = <<>>
    /\ overlay = <<>>
    /\ worker = InstalledWorker

\* a page writes bypassUntil = Date.now() + cooldown (the quiz page on leaving, the
\* content script on HABLA_QUIZ_COMPLETE, the SET_BYPASS handler)
WriteBypass(cooldown) ==
    /\ Len(log) < MaxBypassWrites
    /\ now + cooldown \in BypassInstants
    /\ worker' = stored(worker, now + cooldown)
    /\ log' = Append(log, now + cooldown)
    /\ UNCHANGED <<schedulerVars, fuzzyVars, quiz, overlay>>

\* the CLEAR_BYPASS handler writes bypassUntil = 0
ClearBypass ==
    /\ Len(log) < MaxBypassWrites
    /\ worker' = stored(worker, 0)
    /\ log' = Append(log, 0)
    /\ UNCHANGED <<schedulerVars, fuzzyVars, quiz, overlay>>

\* the onChanged listener is given the oldest change
StorageChanged ==
    /\ worker.changes # <<>>
    /\ worker' = onChanged([worker EXCEPT !.changes = Tail(@)], Head(worker.changes), now)
    /\ UNCHANGED <<schedulerVars, fuzzyVars, log, quiz, overlay>>

\* one of the timers that are due fires: its callback installs the rule
TimerFires(due) ==
    /\ BagIn(due, worker.timers)
    /\ now >= due
    /\ worker' = installRedirectRule([worker EXCEPT !.timers = @ (-) SetToBag({due})])
    /\ UNCHANGED <<schedulerVars, fuzzyVars, log, quiz, overlay>>

\* the extension or the browser is updated: onInstalled with another reason
OnInstalled(reason) ==
    /\ worker' = onInstalled(worker, reason)
    /\ UNCHANGED <<schedulerVars, fuzzyVars, log, quiz, overlay>>

\* an hour passes
TickBypass ==
    /\ now + 1 \in BypassInstants
    /\ now' = now + 1
    /\ UNCHANGED <<progress, quality, store, call, ret, phraseList, next, stats, fuzzyVars,
                   pageVars>>

NextBypass ==
    \/ \E cooldown \in Cooldowns : WriteBypass(cooldown)
    \/ ClearBypass
    \/ StorageChanged
    \/ \E due \in BypassInstants : TimerFires(due)
    \/ \E reason \in {"update", "chrome_update"} : OnInstalled(reason)
    \/ TickBypass

SpecBypass == InitBypass /\ [][NextBypass]_vars

\* the listener is given every change, every timer fires once due, and time passes
SpecBypassFair ==
    /\ SpecBypass
    /\ WF_vars(StorageChanged)
    /\ WF_vars(\E due \in BypassInstants : TimerFires(due))
    /\ WF_vars(TickBypass)

----------------------------------------------------------------------------
(* SpecOverlay: the content script on a news.google.com page.  overlay holds the
   overlay element (attached to the document or not, its opacity), bypassUntil of
   chrome.storage.local, the message events posted to the window and not yet
   dispatched, the chrome.storage.local.set calls not yet completed, the transition of
   the opacity, the transitionend listeners, the fallback timers (a bag of due times:
   a timer fires when it is due or later) and the times
   removeOverlay was called; log holds the message events dispatched so far.  Here the
   clock counts milliseconds. *)

\* the most messages posted to the window
MaxOverlayMessages == 2

\* the milliseconds the clock runs for
MaxOverlayMs == 500

\* transition:opacity 0.3s, and the delay of the fallback timer
TransitionMs == 300
FallbackMs == 400

\* the steps the clock makes
OverlaySteps == {100}

\* bypassUntil as the script may find it: never written, 0, past, still to come
StoredBypass ==
    {Undefined, 0, StartTime - 100, StartTime + IncorrectCooldownMin * MsPerMinute}

\* what a script of the page may post: the quiz's message without a
\* cooldown or with one of a day, or something else
PageData ==
    { [ type |-> "HABLA_QUIZ_COMPLETE", cooldownMs |-> Undefined ],
      [ type |-> "HABLA_QUIZ_COMPLETE", cooldownMs |-> HoursPerDay * 60 * MsPerMinute ],
      [ type |-> "other", cooldownMs |-> 0 ] }

\* the script has made the overlay and asked the storage for bypassUntil
InitialOverlay(bypassUntil) ==
    [ at |-> "checking",
      attached |-> TRUE,
      opacity |-> 1,
      iframe |-> FALSE,
      listening |-> FALSE,
      bypassUntil |-> bypassUntil,
      messages |-> <<>>,
      sets |-> <<>>,
      transition |-> {},
      listeners |-> 0,
      fallbacks |-> EmptyBag,
      removals |-> <<>> ]

\* (mutant) removeOverlay without its fallback timer
removeOverlayNoFallback(o, t) ==
    [o EXCEPT !.opacity = 0,
              !.transition = IF o.attached /\ o.opacity = 1 THEN {t + TransitionMs} ELSE @,
              !.listeners = @ + 1,
              !.removals = Append(@, t)]

\* removeOverlay() at time t: the opacity goes to 0 (a transition if it was 1), a
\* transitionend listener is added and the fallback timer is set
removeOverlay(o, t) ==
    [o EXCEPT !.opacity = 0,
              !.transition = IF o.attached /\ o.opacity = 1 THEN {t + TransitionMs} ELSE @,
              !.listeners = @ + 1,
              !.fallbacks = @ (+) SetToBag({t + FallbackMs}),
              !.removals = Append(@, t)]

\* the callback of chrome.storage.local.get('bypassUntil', ...) at time t
bypassChecked(o, t) ==
    IF o.bypassUntil # Undefined /\ o.bypassUntil # 0 /\ o.bypassUntil > t
    THEN removeOverlay([o EXCEPT !.at = "bypassed"], t)
    ELSE [o EXCEPT !.at = "quiz", !.iframe = TRUE, !.listening = TRUE]

\* event.data.cooldownMs || 0
cooldownOf(data) == IF data.cooldownMs = Undefined THEN 0 ELSE data.cooldownMs

\* the message listener, given an event at time t: chrome.storage.local.set is called
messageListener(o, event, t) ==
    IF event.data.type = "HABLA_QUIZ_COMPLETE"
    THEN [o EXCEPT !.sets = Append(@, [ bypassUntil |-> t + cooldownOf(event.data),
                                        event |-> event ])]
    ELSE o

\* the callback of chrome.storage.local.set at time t: the value is stored
setCompleted(o, t) ==
    removeOverlay([o EXCEPT !.bypassUntil = Head(o.sets).bypassUntil, !.sets = Tail(@)], t)

\* overlay.remove(): the overlay leaves the document, and the iframe with it
removed(o) == [o EXCEPT !.attached = FALSE, !.iframe = FALSE]

InitOverlay ==
    /\ now = StartTime
    /\ progress = createInitialProgress(phrases[1])
    /\ quality = {}
    /\ store = <<>>
    /\ call = <<>>
    /\ ret = {}
    /\ phraseList = phrases
    /\ next = {}
    /\ stats = {}
    /\ NoMatcherCall
    /\ log = <<>>
    /\ quiz = <<>>
    /\ worker = <<>>
    /\ \E bypassUntil \in StoredBypass : overlay = InitialOverlay(bypassUntil)

\* chrome.storage.local.get calls back
BypassChecked ==
    /\ overlay.at = "checking"
    /\ overlay' = bypassChecked(overlay, now)
    /\ UNCHANGED <<schedulerVars, fuzzyVars, log, quiz, worker>>

\* the quiz in the iframe leaves: dismiss posts its message to the parent window
QuizPosts(cooldownMin) ==
    /\ overlay.iframe
    /\ Len(log) + Len(overlay.messages) < MaxOverlayMessages
    /\ overlay' = [overlay EXCEPT !.messages =
          Append(@, [ sender |-> "iframe",
                      data |-> [ type |-> "HABLA_QUIZ_COMPLETE",
                                 cooldownMs |-> cooldownMin * MsPerMinute ] ])]
    /\ UNCHANGED <<schedulerVars, fuzzyVars, log, quiz, worker>>

\* a script of the host page posts a message to the window (a message of another frame
\* reaches the listener the same way)
PagePosts(sender, data) ==
    /\ Len(log) + Len(overlay.messages) < MaxOverlayMessages
    /\ overlay' = [overlay EXCEPT !.messages = Append(@, [ sender |-> sender, data |-> data ])]
    /\ UNCHANGED <<schedulerVars, fuzzyVars, log, quiz, worker>>

\* the oldest message posted is dispatched to the window's message listeners
MessageDispatched ==
    /\ overlay.messages # <<>>
    /\ LET event == [ sender |-> Head(overlay.messages).sender,
                      data |-> Head(overlay.messages).data,
                      at |-> now, heard |-> overlay.listening ]
           taken == [overlay EXCEPT !.messages = Tail(@)]
       IN  /\ overlay' = IF overlay.listening THEN messageListener(taken, event, now)
                         ELSE taken
           /\ log' = Append(log, event)
    /\ UNCHANGED <<schedulerVars, fuzzyVars, quiz, worker>>

\* the oldest chrome.storage.local.set completes and calls back
SetCompletes ==
    /\ overlay.sets # <<>>
    /\ overlay' = setCompleted(overlay, now)
    /\ UNCHANGED <<schedulerVars, fuzzyVars, log, quiz, worker>>

\* the transition of the opacity ends: the transitionend listeners, each added once,
\* remove the overlay
TransitionEnds ==
    /\ overlay.transition # {}
    /\ \A due \in overlay.transition : now >= due
    /\ overlay' = [removed(overlay) EXCEPT !.transition = {}, !.listeners = 0]
    /\ UNCHANGED <<schedulerVars, fuzzyVars, log, quiz, worker>>

\* the transition is cancelled or the page is not rendered: no transitionend event
TransitionLost ==
    /\ overlay.transition # {}
    /\ overlay' = [overlay EXCEPT !.transition = {}]
    /\ UNCHANGED <<schedulerVars, fuzzyVars, log, quiz, worker>>

\* a fallback timer fires, when it is due or later: if (overlay.parentNode)
\* overlay.remove()
FallbackFires(due) ==
    /\ BagIn(due, overlay.fallbacks)
    /\ now >= due
    /\ overlay' = [(IF overlay.attached THEN removed(overlay) ELSE overlay)
                      EXCEPT !.fallbacks = @ (-) SetToBag({due})]
    /\ UNCHANGED <<schedulerVars, fuzzyVars, log, quiz, worker>>

\* time passes, whatever timers are set
TickOverlay(step) ==
    /\ now + step <= StartTime + MaxOverlayMs
    /\ now' = now + step
    /\ UNCHANGED <<progress, quality, store, call, ret, phraseList, next, stats, fuzzyVars,
                   pageVars>>

NextOverlay ==
    \/ BypassChecked
    \/ \E cooldownMin \in {CorrectCooldownMin, IncorrectCooldownMin} : QuizPosts(cooldownMin)
    \/ \E sender \in {"page"}, data \in PageData : PagePosts(sender, data)
    \/ MessageDispatched
    \/ SetCompletes
    \/ TransitionEnds
    \/ TransitionLost
    \/ \E due \in BagToSet(overlay.fallbacks) : FallbackFires(due)
    \/ \E step \in OverlaySteps : TickOverlay(step)

SpecOverlay == InitOverlay /\ [][NextOverlay]_vars

----------------------------------------------------------------------------
(* SpecAccents: an answer typed with and without accents and given to getFeedback for
   a phrase that has accents *)

\* the longest answer typed
MaxAccented == 4

\* the letters typed
AccentedChars == {"a", "á", "b"}

\* the phrases asked for
AccentedPhrases == { <<"á", "b", "a", "b">>, <<"b", "a", "b", "á", "b">> }

InitAccents ==
    /\ SchedulerIdle
    /\ answer = <<>>
    /\ expected \in AccentedPhrases
    /\ options = DefaultOptions
    /\ result = {}

\* the user types a letter into the answer field
TypeAccented(c) ==
    /\ Len(answer) < MaxAccented
    /\ answer' = Append(answer, c)
    /\ result' = {}
    /\ UNCHANGED <<now, progress, quality, store, call, ret, phraseList, next, stats,
                   pageVars, expected, options>>

NextAccents == (\E c \in AccentedChars : TypeAccented(c)) \/ FeedbackCall

SpecAccents == InitAccents /\ [][NextAccents]_vars

----------------------------------------------------------------------------
(* Properties of calculateNextReview, under SpecSM2 *)

\* a step that is a calculateNextReview call (every call raises totalReviews)
Reviewed == progress' # progress

\* C1: after any sequence of calculateNextReview calls from createInitialProgress, with
\* qualities in 0..5, easeFactor >= 1.3; before any call it is 2.5.
C1_EaseFactorFloor ==
    /\ BigCmp(progress.easeFactor, DoubleOf(13, 10)) >= 0
    /\ progress.totalReviews = 0 => progress.easeFactor = DoubleOf(25, 10)

\* the floor has acted: three quality-0 reviews in a row, where 2.5 - 2 * 0.8 < 1.3
C1_Witness ==
    /\ progress.totalReviews = 3 /\ progress.correctReviews = 0 /\ quality = {0}
    /\ progress.easeFactor = DoubleOf(13, 10)

\* C2: a call with quality < 3 yields repetitions = 0 and interval = 1 whatever the
\* record was; so repetitions = 0 whenever the most recent review had quality < 3 or
\* the record has never been reviewed.
C2_FailureResets ==
    /\ quality = {} => progress.repetitions = 0
    /\ \A q \in quality : q < 3 => progress.repetitions = 0 /\ progress.interval = 1

\* a failure after three successes in a row
C2_Witness ==
    /\ progress.totalReviews = 4 /\ progress.correctReviews = 3
    /\ quality = {2} /\ progress.repetitions = 0

\* C3: a call with quality >= 3 adds 1 to repetitions and sets interval to 1 when
\* repetitions was 0, to 6 when it was 1, and else to round(interval * easeFactor)
\* of the interval and easeFactor the record had before the call.
C3_SuccessInterval ==
    [][\A q \in quality' : (Reviewed /\ q >= 3) =>
          /\ progress'.repetitions = progress.repetitions + 1
          /\ progress'.interval =
                IF progress.repetitions = 0 THEN 1
                ELSE IF progress.repetitions = 1 THEN 6
                ELSE MathRound(FMulInt(progress.interval, progress.easeFactor))]_vars

\* qualities 4, 4, 3: the third interval is round(6 * 2.5) = 15, where the ease
\* factor the third call leaves, 2.36, would give 14
C3_Witness ==
    /\ progress.repetitions = 3 /\ progress.totalReviews = 3 /\ quality = {3}
    /\ progress.interval = 15
    /\ BigCmp(progress.easeFactor, DoubleOf(25, 10)) < 0

\* C4: a quality-4 review leaves easeFactor unchanged; so from createInitialProgress a
\* run of quality-4 reviews keeps easeFactor at 2.5, and its first three intervals are
\* 1, 6 and 15.
C4_QualityFourKeepsEase ==
    [][(Reviewed /\ quality' = {4}) =>
          /\ progress'.easeFactor = progress.easeFactor
          /\ ( /\ progress.easeFactor = DoubleOf(25, 10)
               /\ progress.repetitions = progress.totalReviews ) =>
                 /\ progress.totalReviews = 0 => progress'.interval = 1
                 /\ progress.totalReviews = 1 => progress'.interval = 6
                 /\ progress.totalReviews = 2 => progress'.interval = 15]_vars

\* three quality-4 reviews from the initial record
C4_Witness ==
    /\ progress.totalReviews = 3 /\ progress.repetitions = 3 /\ quality = {4}
    /\ progress.easeFactor = DoubleOf(25, 10) /\ progress.interval = 15

\* C5: the record a call returns has lastReview = the time of the call and
\* nextReview = lastReview + interval days, of the new interval; nextReview is
\* strictly after the time of the call.
C5_NextReview ==
    [][Reviewed =>
          /\ progress'.lastReview = now
          /\ progress'.nextReview = progress'.lastReview + progress'.interval * HoursPerDay
          /\ progress'.nextReview > now]_vars

\* a second success, an hour after the start: due six days later
C5_Witness ==
    /\ progress.lastReview = StartTime + 1 /\ progress.interval = 6
    /\ progress.nextReview = StartTime + 1 + 6 * HoursPerDay

\* C6: in every record reachable from createInitialProgress,
\* totalReviews >= correctReviews >= 0.
C6_CountersOrdered ==
    /\ progress.totalReviews >= progress.correctReviews
    /\ progress.correctReviews >= 0

\* successes and failures both counted
C6_Witness ==
    /\ progress.correctReviews >= 2
    /\ progress.totalReviews >= progress.correctReviews + 2

\* C7: each call adds exactly 1 to totalReviews, and exactly 1 to correctReviews when
\* quality >= 3, 0 when quality < 3; neither counter ever decreases.
C7_CountersStep ==
    [][/\ progress'.totalReviews >= progress.totalReviews
       /\ progress'.correctReviews >= progress.correctReviews
       /\ \A q \in quality' : Reviewed =>
             /\ progress'.totalReviews = progress.totalReviews + 1
             /\ q >= 3 => progress'.correctReviews = progress.correctReviews + 1
             /\ q < 3 => progress'.correctReviews = progress.correctReviews]_vars

\* a quality-3 review counted as correct, after a failure that was not
C7_Witness ==
    /\ quality = {3} /\ progress.totalReviews = 2 /\ progress.correctReviews = 1
    /\ progress.repetitions = 1

----------------------------------------------------------------------------
(* Properties of recordReview, under Spec *)

\* the calls under way that have read their record
CallsRead == {call[i] : i \in {j \in DOMAIN call : call[j].at = "saveProgress"}}

\* C8: recordReview applies the transition with quality 0 when skipped (whatever
\* correct is), else 4 when correct, else 1; never 2, 3 or 5.
C8_ReviewQuality ==
    \A c \in CallsRead :
        LET q == IF c.skipped THEN 0 ELSE IF c.correct THEN 4 ELSE 1
        IN  /\ c.quality = q
            /\ c.quality \notin {2, 3, 5}
            /\ c.updated = calculateNextReview(c.progress, q, c.updated.lastReview)

\* a call with skipped and correct both true, on a record with a streak
C8_Witness ==
    \E c \in CallsRead :
        /\ c.skipped /\ c.correct /\ c.progress.repetitions = 1
        /\ c.quality = 0 /\ c.updated.repetitions = 0

\* C9: a call on a phrase with no stored record starts from the default record (a call
\* on a phrase that has one, from that record); when the call returns the store holds
\* for its phraseId the record returned, and the records of all other phraseIds are as
\* they were.
C9_StoreFrame ==
    /\ [][\A i \in DOMAIN call :
             (i \in DOMAIN call' /\ call[i].at = "getProgress"
                 /\ call'[i].at = "saveProgress") =>
                LET id == call[i].phraseId
                IN  /\ id \in DOMAIN store => call'[i].progress = store[id]
                    /\ id \notin DOMAIN store =>
                          call'[i].progress = [ phraseId |-> id,
                                                easeFactor |-> DoubleOf(25, 10),
                                                interval |-> 0, repetitions |-> 0,
                                                nextReview |-> 0, lastReview |-> Null,
                                                totalReviews |-> 0,
                                                correctReviews |-> 0 ]]_vars
    /\ [][Len(call') < Len(call) =>
             LET id == Head(call).phraseId
             IN  \E r \in ret' :
                    /\ r.phraseId = id
                    /\ r = Head(call).updated
                    /\ DOMAIN store' = DOMAIN store \cup {id}
                    /\ store'[id] = r
                    /\ \A i \in DOMAIN store \ {id} : store'[i] = store[i]]_vars

\* the first review of one phrase has returned while another phrase has a record
C9_Witness ==
    \E r \in ret :
        /\ r.totalReviews = 1
        /\ r.phraseId \in DOMAIN store /\ store[r.phraseId] = r
        /\ \E i \in DOMAIN store : i # r.phraseId /\ store[i].totalReviews = 1

\* C10: over any sequence of recordReview calls on a phrase that started without a
\* record, the stored easeFactor never increases from one review to the next and
\* never exceeds 2.5.
C10_EaseNeverRises ==
    [][\A i \in DOMAIN store' :
          /\ BigCmp(store'[i].easeFactor, DoubleOf(25, 10)) <= 0
          /\ i \in DOMAIN store =>
                BigCmp(store'[i].easeFactor, store[i].easeFactor) <= 0]_vars

----------------------------------------------------------------------------
(* Properties of getNextPhrase, under SpecQueue.  next holds the value of a call made
   in the present state: every other step empties it. *)

\* the records of the snapshot
Records == {store[i] : i \in DOMAIN store}
\* the ids of the phrases of the list
ListIds == {phraseList[i] : i \in DOMAIN phraseList}
\* the records with nextReview <= now and repetitions > 0
DueRecords == {r \in Records : r.nextReview <= now /\ r.repetitions > 0}
\* the phrases of the list that have no record
NewIds == ListIds \ DOMAIN store

\* C11: if at least one record has nextReview <= now and repetitions > 0, getNextPhrase
\* returns the phrase of the record with the smallest nextReview among those records,
\* also when phrases without a record exist (stated for a list that has phrases).
C11_DueBeatsNew ==
    \A n \in next : (DueRecords # {} /\ phraseList # <<>>) =>
        /\ n \in ListIds
        /\ \E r \in DueRecords :
              /\ r.phraseId = n
              /\ \A o \in DueRecords : r.nextReview <= o.nextReview

\* C12: if no record is due and some phrase has no record, getNextPhrase returns the
\* first phrase, in list order, that has no record.
C12_FirstNewPhrase ==
    \A n \in next : (DueRecords = {} /\ NewIds # {}) =>
        \E i \in DOMAIN phraseList :
            /\ phraseList[i] = n
            /\ n \in NewIds
            /\ \A j \in 1..(i - 1) : phraseList[j] \notin NewIds

\* the list leads with a phrase that has a record, not due, and the call has returned
\* the phrase behind it
C12_Witness ==
    /\ Len(phraseList) >= 2
    /\ phraseList[1] \in DOMAIN store
    /\ DueRecords = {}
    /\ next = {phraseList[2]}
    /\ phraseList[2] \in NewIds

\* C13: if no record is due and every phrase has a record, getNextPhrase returns the
\* phrase of the record with the smallest nextReview of all records; of several records
\* with that nextReview, the first in snapshot order (ascending phraseId).  Stated for
\* a list that has phrases.
C13_EarliestOfAll ==
    \A n \in next : (DueRecords = {} /\ NewIds = {} /\ Records # {} /\ phraseList # <<>>) =>
        /\ n \in ListIds
        /\ \E r \in Records :
              /\ r.phraseId = n
              /\ \A o \in Records :
                    \/ r.nextReview < o.nextReview
                    \/ r.nextReview = o.nextReview /\ r.phraseId <= o.phraseId

\* C14: getNextPhrase returns none only when the phrase list is empty; when the list is
\* not empty it returns a phrase of the list.
C14_ReturnsListedPhrase ==
    \A n \in next :
        /\ phraseList # <<>> => n \in ListIds
        /\ n = Null => phraseList = <<>>

\* C15: a phrase whose record has repetitions = 0 is returned only when every phrase of
\* the list has a record and no record is due, that is by the catch-all step; never by
\* the due step, and never while a phrase without a record is left.
C15_UnlearnedNotDue ==
    \A n \in next : (n \in DOMAIN store /\ store[n].repetitions = 0) =>
        /\ NewIds = {}
        /\ DueRecords = {}

\* a failed phrase is past its nextReview, a phrase without a record is left, and the
\* call has returned the phrase without a record
C15_Witness ==
    /\ \E r \in Records : r.repetitions = 0 /\ r.nextReview < now /\ r.phraseId \in ListIds
    /\ \E n \in next : n \in NewIds

----------------------------------------------------------------------------
(* Properties of getStats, under SpecStats.  stats holds the value of a call made in
   the present state: every other step empties it. *)

RECURSIVE SumCorrect(_, _)
SumCorrect(s, ids) ==
    IF ids = {} THEN 0
    ELSE LET i == CHOOSE j \in ids : TRUE
         IN  s[i].correctReviews + SumCorrect(s, ids \ {i})

\* the sum of the ease factors as a real number, without rounding
RECURSIVE SumEase(_, _)
SumEase(s, ids) ==
    IF ids = {} THEN BigZero
    ELSE LET i == CHOOSE j \in ids : TRUE
         IN  BigAdd(s[i].easeFactor, SumEase(s, ids \ {i}))

\* the sum of the ease factors as doubles give it: added in the order of the ids, every
\* sum rounded to the nearest double
RECURSIVE DoubleSumEase(_, _)
DoubleSumEase(s, ids) ==
    IF ids = {} THEN BigZero
    ELSE LET last == CHOOSE i \in ids : \A j \in ids : j <= i
         IN  RoundToDouble(BigAdd(DoubleSumEase(s, ids \ {last}), s[last].easeFactor))

\* |x - y| <= slack
Within(x, y, slack) ==
    IF BigCmp(x, y) >= 0 THEN BigCmp(BigSub(x, y), slack) <= 0
    ELSE BigCmp(BigSub(y, x), slack) <= 0

\* what the roundings of the sum and of the division can add up to: 2^-49
EaseSlack == ShiftLeft(BigOne, FracBits - 49)

\* C16: getStats returns totalPhrases = size of the phrase list, learned = number of
\* records, mastered = number of records with interval >= 21, dueNow = number with
\* nextReview <= now, dueToday = number with nextReview <= now + one day, totalReviews
\* = sum of totalReviews, accuracy = sum of correctReviews / sum of totalReviews (the
\* nearest double; 0 when that sum is 0) and averageEase = the mean easeFactor (0 when
\* there are no records): the double that the sum of the ease factors divided by their
\* number is, which is the mean of the real numbers to within 2^-49.
C16_Stats ==
    \A st \in stats :
        LET ids == DOMAIN store
            n == Cardinality(ids)
            reviews == SumReviews(store, ids)
        IN  /\ st.totalPhrases = Len(phraseList)
            /\ st.learned = n
            /\ st.mastered = Cardinality({i \in ids : store[i].interval >= 21})
            /\ st.dueNow = Cardinality({i \in ids : store[i].nextReview <= now})
            /\ st.dueToday =
                  Cardinality({i \in ids : store[i].nextReview <= now + HoursPerDay})
            /\ st.totalReviews = reviews
            /\ st.accuracy = IF reviews = 0 THEN BigZero
                             ELSE DoubleOf(SumCorrect(store, ids), reviews)
            /\ IF n = 0 THEN st.averageEase = BigZero
               ELSE /\ LET quotient == BigDivSmall(DoubleSumEase(store, ids), n)
                       IN  st.averageEase = RoundSticky(quotient.quot, quotient.rem # 0)
                    /\ Within(BigMulSmall(st.averageEase, n), SumEase(store, ids),
                              BigMulSmall(EaseSlack, n))

\* one phrase mastered by four successes, a second failed a moment ago: due within
\* the day but not now, accuracy 4/5, two different ease factors
C16_Witness ==
    \E st \in stats :
        /\ st.totalPhrases = 3 /\ st.learned = 2 /\ st.mastered = 1
        /\ st.dueNow = 0 /\ st.dueToday = 1
        /\ st.totalReviews = 5 /\ st.accuracy = DoubleOf(4, 5)
        /\ \E i, j \in DOMAIN store : store[i].easeFactor # store[j].easeFactor
        /\ now = StartTime + HoursPerDay

----------------------------------------------------------------------------
(* Properties of FuzzyMatcher.normalize, under SpecNormalize *)

\* C17: normalize is idempotent: normalize(normalize(s)) = normalize(s) for every
\* string s, also one of punctuation and white space only; null and undefined
\* normalise to the empty string.
C17_NormalizeIdempotent ==
    /\ \A r \in result : normalize(r) = r
    /\ (answer \in {NullValue, UndefinedValue} /\ result # {}) => result = {<<>>}

\* a string that every step of normalize changes: "Á?" and a tab and a space become "á"
C17_Witness ==
    /\ answer = <<"Á", "?", "\t", " ">>
    /\ result = {<<"á">>}

----------------------------------------------------------------------------
(* Properties of FuzzyMatcher.levenshteinDistance, under SpecLevenshtein *)

\* the strings one insertion, deletion or substitution away from str; a shortest
\* sequence of edits needs no letter outside the two words and (deleting first,
\* inserting last) no string longer than the longer of them, the cap
OneEdit(str, cap) ==
    {SubSeq(str, 1, i - 1) \o SubSeq(str, i + 1, Len(str)) : i \in 1..Len(str)}
    \cup {[str EXCEPT ![i] = c] : i \in 1..Len(str), c \in Letters}
    \cup IF Len(str) < cap
         THEN {SubSeq(str, 1, i) \o <<c>> \o SubSeq(str, i + 1, Len(str)) :
                  i \in 0..Len(str), c \in Letters}
         ELSE {}

\* the strings at most k edits away from those of from
RECURSIVE EditBall(_, _, _)
EditBall(from, k, cap) ==
    IF k = 0 THEN from
    ELSE EditBall(from \cup UNION {OneEdit(str, cap) : str \in from}, k - 1, cap)

\* the least number of edits that turn a into b
MinEdits(a, b) ==
    LET cap == IF Len(a) >= Len(b) THEN Len(a) ELSE Len(b)
    IN  CHOOSE k \in 0..(Len(a) + Len(b)) :
            /\ b \in EditBall({a}, k, cap)
            /\ k > 0 => b \notin EditBall({a}, k - 1, cap)

\* C18: levenshteinDistance(a, b) is the least number of single-character insertions,
\* deletions and substitutions that turn a into b; it is 0 for a = b, the length of
\* the other string when one is empty, and the same with the arguments swapped.
C18_MinimumEdits ==
    \A d \in result :
        /\ d = MinEdits(answer, expected)
        /\ answer = expected => d = 0
        /\ answer = <<>> => d = Len(expected)
        /\ expected = <<>> => d = Len(answer)
        /\ d = levenshteinDistance(expected, answer)

\* "aab" to "ba": a deletion and a substitution, in a matrix of three rows and four columns
C18_Witness ==
    /\ answer = <<"a", "a", "b">>
    /\ expected = <<"b", "a">>
    /\ result = {2}

----------------------------------------------------------------------------
(* Properties of FuzzyMatcher.match, under SpecMatch *)

\* C19: for any non-empty expected string, match(expected, expected) returns
\* matches = true, exact = true and similarity = 1.0, under any options.
C19_SelfMatchExact ==
    \A r \in result : (answer = expected /\ expected # <<>>) =>
        r.matches /\ r.exact /\ r.similarity = DoubleOf(1, 1)

\* an accented letter and a question mark against themselves, with strict accents
C19_Witness ==
    /\ answer = <<"á", "?">> /\ expected = answer
    /\ options.strictAccents /\ options.maxDistance = Null
    /\ \E r \in result : r.exact

\* C20 as stated: whenever expected is a non-empty string, match('', expected) returns
\* matches = false and similarity = 0.
C20_EmptyAnswerRejected ==
    \A r \in result : (answer = <<>> /\ expected # <<>>) =>
        ~r.matches /\ r.similarity = BigZero

\* C20, amended: match('', expected) returns matches = false and similarity = 0
\* whenever the normalised expected string (without its accents unless strictAccents)
\* is non-empty; when that is empty, as for an expected string of punctuation and white
\* space only, it returns matches = true, exact = true and similarity = 1.
C20_EmptyAnswerAgainstPrepared ==
    \A r \in result : answer = <<>> =>
        IF prepared(expected, options) # <<>>
        THEN ~r.matches /\ r.similarity = BigZero /\ ~r.exact
        ELSE r.matches /\ r.similarity = DoubleOf(1, 1) /\ r.exact

\* the empty answer against "á", with one edit allowed and no similarity demanded
C20_Witness ==
    /\ answer = <<>> /\ expected = <<"á">>
    /\ options.maxDistance = 1 /\ options.minSimilarity = BigZero
    /\ \E r \in result : ~r.matches

----------------------------------------------------------------------------
(* Properties of FuzzyMatcher.match on typed answers, under SpecTyping *)

\* the strings match compares
TypedAnswer == prepared(answer, options)
AskedPhrase == prepared(expected, options)
\* the distance the answer is allowed
Allowed ==
    IF options.maxDistance # Null THEN options.maxDistance ELSE Len(AskedPhrase) \div 5
\* 1 - distance / max(len, len), in double arithmetic
Similarity ==
    FSub(DoubleOf(1, 1),
         DoubleOf(levenshteinDistance(TypedAnswer, AskedPhrase),
                  IF Len(TypedAnswer) >= Len(AskedPhrase) THEN Len(TypedAnswer)
                  ELSE Len(AskedPhrase)))

\* C21: when the normalised answer is non-empty and differs from the normalised
\* expected, match returns exact = false, and matches = true if and only if distance
\* <= allowedDistance and similarity >= minSimilarity, with similarity = 1 - distance /
\* max(len, len) and allowedDistance = maxDistance if given (0 included), else
\* floor(len(normalised expected) / 5); so with the default options a phrase of fewer
\* than 5 normalised characters is matched by an exact answer only.
C21_BothGates ==
    \A r \in result : (TypedAnswer # <<>> /\ TypedAnswer # AskedPhrase) =>
        /\ ~r.exact
        /\ r.distance = levenshteinDistance(TypedAnswer, AskedPhrase)
        /\ r.similarity = Similarity
        /\ r.matches <=> (/\ r.distance <= Allowed
                          /\ BigCmp(Similarity, options.minSimilarity) >= 0)
        /\ (options = DefaultOptions /\ Len(AskedPhrase) < 5) => ~r.matches

\* "abbabaa" typed as "abbabab" with maxDistance = 0 is turned down although its
\* similarity, 6/7, passes
C21_Witness ==
    /\ answer = <<"a", "b", "b", "a", "b", "a", "b">>
    /\ Len(AskedPhrase) = 7
    /\ options.maxDistance = 0 /\ options.minSimilarity = DoubleOf(85, 100)
    /\ \E r \in result : ~r.matches /\ r.distance = 1
                         /\ BigCmp(r.similarity, options.minSimilarity) >= 0

\* C22: with the default options, every answer whose normalised, accent-folded form is
\* within floor(len(normalised expected) / 5) edits of the normalised, accent-folded
\* expected phrase is accepted.
C22_OneErrorPerFive ==
    \A r \in result :
        (/\ options = DefaultOptions
         /\ levenshteinDistance(TypedAnswer, AskedPhrase) <= Len(AskedPhrase) \div 5)
        => r.matches

----------------------------------------------------------------------------
(* Properties of FuzzyMatcher.getFeedback, under SpecFeedback *)

\* the default-options match of the typed answer
DefaultMatch == match(answer, expected, DefaultOptions)
\* the normalised expected starts with the normalised answer, of 3 characters or more
IsPrefix ==
    /\ Len(normalize(answer)) >= 3
    /\ Len(normalize(answer)) <= Len(normalize(expected))
    /\ \A i \in 1..Len(normalize(answer)) : normalize(answer)[i] = normalize(expected)[i]
\* similarity >= 0.7
IsClose == BigCmp(DefaultMatch.similarity, DoubleOf(7, 10)) >= 0

\* C24: getFeedback returns exactly one of correct, partial, close, incorrect by strict
\* priority: correct if and only if the default-options match matches; otherwise
\* partial if the normalised expected starts with the normalised answer of length >= 3;
\* otherwise close if similarity >= 0.7; otherwise incorrect. A prefix whose
\* similarity is >= 0.7 is partial, not close.
C24_FeedbackPriority ==
    \A r \in result :
        /\ r.type \in {"correct", "partial", "close", "incorrect"}
        /\ r.type = "correct" <=> DefaultMatch.matches
        /\ r.type = "partial" <=> (~DefaultMatch.matches /\ IsPrefix)
        /\ r.type = "close" <=> (~DefaultMatch.matches /\ ~IsPrefix /\ IsClose)
        /\ r.type = "incorrect" <=> (~DefaultMatch.matches /\ ~IsPrefix /\ ~IsClose)

\* "aba" typed for "abab?": a prefix whose similarity is 0.75, answered partial
C24_Witness ==
    /\ answer = <<"a", "b", "a">>
    /\ normalize(expected) = <<"a", "b", "a", "b">>
    /\ IsPrefix /\ IsClose
    /\ \E r \in result : r.type = "partial" /\ r.message = "Keep going..."

----------------------------------------------------------------------------
(* Properties of FuzzyMatcher.match on varied phrases, under SpecTolerance *)

\* the letters of a string, each with whether it bears an accent
AccentedLetters == {"á", "Á"}
RECURSIVE AccentsOf(_)
AccentsOf(str) ==
    IF str = <<>> THEN <<>>
    ELSE IF Head(str) \in {"a", "A", "b", "B"} \cup AccentedLetters
         THEN <<Head(str) \in AccentedLetters>> \o AccentsOf(Tail(str))
         ELSE AccentsOf(Tail(str))
\* the letters whose accents differ between the answer and the expected phrase
AccentDifferences ==
    { i \in DOMAIN AccentsOf(answer) : AccentsOf(answer)[i] # AccentsOf(expected)[i] }

\* C23: with the default options, two strings that differ only in letter case, in
\* stripped punctuation marks, in the amount of white space (leading, trailing or
\* runs) or in accent marks match with matches = true, exact = true and similarity =
\* 1; with strictAccents = true a difference in accent marks is no longer an exact
\* match and counts as edits.
C23_ToleratedDifferences ==
    \A r \in result :
        /\ ~options.strictAccents =>
              r.matches /\ r.exact /\ r.similarity = DoubleOf(1, 1)
        /\ (options.strictAccents /\ AccentDifferences # {}) =>
              /\ ~r.exact
              /\ r.distance = Cardinality(AccentDifferences)
              /\ BigCmp(r.similarity, DoubleOf(1, 1)) < 0

\* "¿A b" against "á  b" with the default options, and "á b" against "a b" with
\* strictAccents
C23_Witness ==
    \/ /\ ~options.strictAccents
       /\ answer = <<"?", "A", " ", "b">>
       /\ expected = <<"á", " ", " ", "b">>
       /\ \E r \in result : r.exact
    \/ /\ options.strictAccents
       /\ answer = <<"á", " ", "b">>
       /\ expected = <<"a", " ", "b">>
       /\ \E r \in result : ~r.exact /\ r.distance = 1

----------------------------------------------------------------------------
(* Properties of the progress store, under SpecStore *)

\* the record most recently saved for id since the last clearAll, going back through
\* the first n calls of the log ({} if there is none)
RECURSIVE LastSaved(_, _)
LastSaved(n, id) ==
    IF n = 0 \/ log[n].op = "clearAll" THEN {}
    ELSE IF log[n].record.phraseId = id THEN {log[n].record}
    ELSE LastSaved(n - 1, id)

\* C25: the progress store is an upsert map keyed by phraseId: after any sequence of
\* saveProgress and clearAll calls it holds at most one record per phraseId,
\* getProgress(id) returns the most recently saved record for id or null if none was
\* saved since the last clearAll, saving the same record twice has the same effect as
\* saving it once, and after clearAll getAllProgress is empty.
C25_UpsertMap ==
    /\ \A r \in ret :
          /\ r.op = "getProgress" => r.value = LastSaved(Len(log), r.phraseId)
          /\ r.op = "getAllProgress" =>
                /\ \A i, j \in DOMAIN r.value :
                      r.value[i].phraseId = r.value[j].phraseId => i = j
                /\ \A i \in DOMAIN r.value :
                      {r.value[i]} = LastSaved(Len(log), r.value[i].phraseId)
                /\ \A id \in PhraseIds :
                      LastSaved(Len(log), id) # {} =>
                          \E i \in DOMAIN r.value : r.value[i].phraseId = id
                /\ (log # <<>> /\ log[Len(log)].op = "clearAll") => r.value = <<>>
    /\ \A record \in StoreRecords :
          saveProgress(saveProgress(store, record), record) = saveProgress(store, record)

\* phrase 1 saved, saved again updated, phrase 2 saved: getProgress(1) is the update;
\* and a clearAll after two saves leaves getAllProgress empty
C25_Witness ==
    \/ /\ Len(log) = 3
       /\ log[1].op = "saveProgress" /\ log[1].record.phraseId = 1 /\ log[1].record.interval = 1
       /\ log[2].op = "saveProgress" /\ log[2].record.phraseId = 1 /\ log[2].record.interval = 6
       /\ log[3].op = "saveProgress" /\ log[3].record.phraseId = 2
       /\ \E r \in ret : r.op = "getProgress" /\ r.phraseId = 1 /\ r.value = {log[2].record}
    \/ /\ Len(log) = 3
       /\ log[1].op = "saveProgress" /\ log[2].op = "saveProgress" /\ log[3].op = "clearAll"
       /\ \E r \in ret : r.op = "getAllProgress" /\ r.value = <<>>

----------------------------------------------------------------------------
(* Properties of recordReview when the store fails, under SpecAwait *)

\* C26: if the store's getProgress or saveProgress fails during recordReview,
\* recordReview fails with that same error (no retry, no masking, no updated record
\* returned) and the stored record for the phrase is the same as before the call;
\* recordReview returns successfully only after the store's write has completed.
C26_StoreFailurePropagates ==
    \A c \in {call[i] : i \in DOMAIN call} :
        /\ c.at = "threw" =>
              /\ ret = {[ threw |-> c.error ]}
              /\ getProgress(store, c.phraseId) = c.before
        /\ c.at \in {"getProgress", "saveProgress", "saved"} => ret = {}
        /\ (\E r \in ret : "value" \in DOMAIN r) =>
              /\ c.at = "returned"
              /\ getProgress(store, c.phraseId) = {r.value : r \in ret}

\* a second review of a phrase whose write is turned down for lack of room: the call
\* has failed and the record of the first review is still the stored one
C26_Witness ==
    \E c \in {call[i] : i \in DOMAIN call} :
        /\ c.at = "threw" /\ c.error = "QuotaExceededError"
        /\ c.before # {}
        /\ getProgress(store, c.phraseId) = c.before
        /\ ret = {[ threw |-> "QuotaExceededError" ]}

----------------------------------------------------------------------------
(* Properties of the quiz page, under SpecQuiz *)

\* the user's event was an answer that does not match the phrase presented then
WrongAnswer(e) ==
    e.event = "submit" /\ ~match(e.answer, phraseText(e.phraseId), DefaultOptions).matches
\* the user's event was an answer that matches the phrase presented then, or a skip
RightAnswerOrSkip(e) ==
    \/ e.event = "skip"
    \/ e.event = "submit" /\ match(e.answer, phraseText(e.phraseId), DefaultOptions).matches
\* the quiz is still there: it is not leaving, has posted no message, has written no
\* bypass (nor asked for one to be written) and has not navigated
QuizStays ==
    /\ ~quiz.leaving
    /\ quiz.leaveTimers = <<>>
    /\ quiz.sets = <<>>
    /\ quiz.posted = <<>>
    /\ quiz.bypassUntil = {}
    /\ quiz.location = "quiz.html"

\* C27: in blocking (non-practice) mode the quiz screen stays until the user correctly
\* types the phrase or skips: submitting an answer that does not match the current
\* phrase never dismisses the quiz, never posts HABLA_QUIZ_COMPLETE and never sets
\* bypassUntil.
C27_WrongAnswerStays ==
    (~quiz.isTestMode /\ \A i \in DOMAIN log : WrongAnswer(log[i])) => QuizStays

\* C28: in practice mode no sequence of submit and skip events dismisses the quiz:
\* dismiss is never called, bypassUntil is never written and the page never navigates
\* to news.google.com; a correct answer or a skip instead loads the next phrase (as
\* long as no phrase was loaded since, the load is on its way: a handler that awaits
\* its review will do it, or the reveal timer will, or getNextPhrase is asked for).
C28_PracticeNeverDismisses ==
    quiz.isTestMode =>
        /\ QuizStays
        /\ \A i \in DOMAIN log :
              (RightAnswerOrSkip(log[i]) /\ quiz.loads = log[i].loads) =>
                  \/ \E k \in DOMAIN quiz.awaiting :
                        quiz.awaiting[k].handler \in {"onCorrect", "skip"}
                  \/ quiz.revealTimer = "loadNextPhrase"
                  \/ quiz.loading > 0

----------------------------------------------------------------------------
(* Properties of the service worker, under SpecBypass and SpecBypassFair *)

\* C29: while a bypass is active (the stored bypassUntil is greater than the current
\* time) the redirect rule is not installed, after any sequence of bypassUntil changes
\* and timer firings (every change having been given to the listener), including a
\* second, later bypass stored before the timer of an earlier one fires, and an
\* update of the extension during a bypass.
C29_NoRuleDuringBypass ==
    (worker.changes = <<>> /\ worker.bypassUntil > now) => ~worker.rule

\* C30: every bypass ends with the redirect rule back in place: after bypassUntil is
\* set to a time T, the timers firing, the rule is eventually installed at or after T;
\* for T in the future that is when the bypass is over, for T = 0 or T not in the
\* future it is at once.
C30_BypassEnds ==
    \A T \in BypassInstants \cup {0} :
        (worker.bypassUntil = T) ~> (worker.rule /\ now >= T)

\* a bypass was written for a later hour, that hour has come, its timer has fired and
\* the rule is installed
C30_Witness ==
    /\ log # <<>>
    /\ worker.bypassUntil > StartTime
    /\ now >= worker.bypassUntil
    /\ worker.timers = EmptyBag
    /\ worker.changes = <<>>
    /\ worker.rule

----------------------------------------------------------------------------
(* The intervals of calculateNextReview, under SpecSM2 *)

\* C37: in every record reachable from createInitialProgress by calculateNextReview
\* calls with qualities in 0..5 that has been reviewed at least once: interval >= 1;
\* repetitions = 0 or 1 implies interval = 1; repetitions = 2 implies interval = 6;
\* repetitions >= 3 implies interval > 6; and within a run of consecutive successful
\* reviews the interval never decreases from one review to the next.
C37_IntervalLadder ==
    /\ [](progress.totalReviews >= 1 =>
            /\ progress.interval >= 1
            /\ progress.repetitions \in {0, 1} => progress.interval = 1
            /\ progress.repetitions = 2 => progress.interval = 6
            /\ progress.repetitions >= 3 => progress.interval > 6)
    /\ [][(Reviewed /\ progress.repetitions >= 1 /\ progress'.repetitions >= 2) =>
            progress'.interval >= progress.interval]_vars

\* four successes in a row after a failure: the interval has passed 6 twice
C37_Witness ==
    /\ progress.repetitions = 4
    /\ progress.totalReviews = 5
    /\ progress.correctReviews = 4
    /\ progress.interval > 6

----------------------------------------------------------------------------
(* getNextPhrase and records of phrases that are not in the list, under SpecQueue *)

\* C38: for every progress snapshot, including one that holds records whose phraseId
\* is not (or no longer) the id of any phrase in the list, getNextPhrase with a
\* non-empty phrase list returns a phrase of the list and never an undefined value;
\* such orphan records do not prevent phrases of the list from being selected.
C38_OrphansHarmless ==
    \A n \in next :
        (phraseList # <<>> /\ DOMAIN store \ ListIds # {}) =>
            /\ n # Undefined
            /\ n \in ListIds

----------------------------------------------------------------------------
(* getFeedback and accents, under SpecAccents *)

\* the answer with the accent of its i-th letter added or taken away
AccentToggled(i) == [answer EXCEPT ![i] = toggleAccent(answer[i])]

\* C39: getFeedback is as accent-tolerant as match: for a fixed expected phrase, two
\* answers that differ only in accent marks receive the same feedback type; in
\* particular an unaccented prefix (at least 3 characters) of an accented expected
\* phrase is classified partial just like the accented prefix.
C39_FeedbackIgnoresAccents ==
    \A r \in result : \A i \in DOMAIN answer :
        getFeedback(AccentToggled(i), expected).type = r.type

----------------------------------------------------------------------------
(* The phrase the quiz page presents, under SpecQuiz *)

\* the scheduler's choice over the store as a step leaves it
ChosenNext == getNextPhrase(phraseList, getAllProgress(store'), now)

\* C36: the quiz controller presents the phrase chosen by getNextPhrase whenever that
\* phrase has an image or no phrase in the list has an image; when some phrase has an
\* image but the scheduler's choice has none, it presents some phrase that has an
\* image instead.  Hence, whenever at least one phrase has an image, the presented
\* phrase has an image and every review is recorded against the presented phrase's id,
\* not the scheduler's choice.
C36_PresentsImagePhrase ==
    /\ [](quiz.images # {} => quiz.currentPhrase \in quiz.images)
    /\ [][quiz'.loads > quiz.loads =>
            /\ (ChosenNext \in quiz.images \/ quiz.images = {}) =>
                  quiz'.currentPhrase = ChosenNext
            /\ (quiz.images # {} /\ ChosenNext \notin quiz.images) =>
                  quiz'.currentPhrase \in quiz.images]_vars
    /\ [][Len(quiz'.awaiting) > Len(quiz.awaiting) =>
            quiz'.awaiting[Len(quiz'.awaiting)].phraseId = quiz.currentPhrase]_vars

\* phrases 1 and 3 have images, phrase 1 has been reviewed, the scheduler's choice is
\* phrase 2, and the page presents phrase 3
C36_Witness ==
    /\ quiz.images = {1, 3}
    /\ quiz.loads >= 2
    /\ quiz.awaiting = <<>>
    /\ getNextPhrase(phraseList, getAllProgress(store), now) = 2
    /\ quiz.currentPhrase = 3

----------------------------------------------------------------------------
(* The attempts the quiz page counts, under SpecQuiz *)

\* the pages that record a failure at the third attempt: the quiz page in practice
\* mode, the block page always
CountsAttempts == quiz.isTestMode \/ quiz.controller = "block"
\* the user's event was an answer, not blank, that does not match the phrase presented
TypedWrong(e) == WrongAnswer(e) /\ Len(trim(e.answer)) > 0
\* how many of the events were wrong answers on the phrase presented since its load
WrongAnswersOn(events, loads) ==
    Cardinality({i \in DOMAIN events : TypedWrong(events[i]) /\ events[i].loads = loads})

\* C33: in practice mode of the quiz controller (and in the block controller in every
\* mode), the first two wrong answers on the currently presented phrase leave the
\* progress store unchanged (they start no review); a failure review (quality 1) is
\* recorded only by a wrong answer that is the third or a later attempt on that phrase,
\* and the attempt counter restarts at 0 each time a new phrase is loaded.
C33_ThirdWrongAnswerRecords ==
    /\ [][(/\ CountsAttempts
           /\ Len(log') > Len(log)
           /\ TypedWrong(log'[Len(log')])
           /\ WrongAnswersOn(log', quiz.loads) <= 2)
          => quiz'.awaiting = quiz.awaiting]_vars
    /\ [][(/\ CountsAttempts
           /\ Len(quiz'.awaiting) > Len(quiz.awaiting)
           /\ ~quiz'.awaiting[Len(quiz'.awaiting)].correct
           /\ ~quiz'.awaiting[Len(quiz'.awaiting)].skipped)
          => (TypedWrong(log'[Len(log')]) /\ quiz'.attempts >= 3)]_vars
    /\ [][quiz'.loads > quiz.loads => quiz'.attempts = 0]_vars

\* the quiz page in blocking mode
Blocking == quiz.controller = "quiz" /\ ~quiz.isTestMode
\* the reviews recorded for a phrase since the page opened on an empty store
ReviewsRecorded(id) == IF id \in DOMAIN store THEN store[id].totalReviews ELSE 0

\* C32: in blocking mode, between a phrase being loaded and the quiz being dismissed,
\* at most one review is recorded for that phrase, for any sequence of submit and skip
\* events, including events that arrive during the 2.5 s reveal delay or the 300 ms
\* leave animation that precede dismissal.
C32_OneReviewPerPhrase ==
    Blocking => (quiz.loads = 1 /\ ReviewsRecorded(quiz.currentPhrase) <= 1)

\* C31: the quiz controller serialises reviews: for any sequence of submit (button or
\* Enter) and skip events, it never starts a recordReview for a phrase while an earlier
\* recordReview for that phrase has read the record but not yet completed its write,
\* so no review's update to totalReviews, correctReviews, repetitions or easeFactor is
\* lost (every review recorded counts one more review of its phrase).
C31_ReviewsSerialised ==
    /\ [][(quiz.controller = "quiz" /\ Len(quiz'.awaiting) > Len(quiz.awaiting))
          => \A j \in DOMAIN quiz.awaiting :
                ~(/\ quiz.awaiting[j].phraseId = quiz.currentPhrase
                  /\ quiz.awaiting[j].read # {})]_vars
    /\ [][(quiz.controller = "quiz" /\ Len(quiz'.awaiting) < Len(quiz.awaiting))
          => LET id == Head(quiz.awaiting).phraseId
             IN  store'[id].totalReviews = ReviewsRecorded(id) + 1]_vars

----------------------------------------------------------------------------
(* The content script's overlay, under SpecOverlay *)

\* the HABLA_QUIZ_COMPLETE messages the listener was given up to time t
CompletionsHeard(t) ==
    {i \in DOMAIN log : /\ log[i].heard
                        /\ log[i].data.type = "HABLA_QUIZ_COMPLETE"
                        /\ log[i].at <= t}
\* removeOverlay has been called
RemovalStarted == overlay.removals # <<>>

\* the overlay is removed only after removal has started, and that only on a bypass
\* found when the script checked or on a HABLA_QUIZ_COMPLETE message received
RemovedOnlyOnBypassOrMessage ==
    /\ ~overlay.attached => RemovalStarted
    /\ RemovalStarted =>
          \/ /\ overlay.at = "bypassed"
             /\ overlay.bypassUntil \notin {Undefined, 0}
             /\ overlay.bypassUntil > overlay.removals[1]
          \/ /\ overlay.at = "quiz"
             /\ CompletionsHeard(overlay.removals[1]) # {}
\* on a message, bypassUntil = receive time + cooldownMs is stored before removal starts
BypassStoredBeforeRemoval ==
    (overlay.at = "quiz" /\ Len(overlay'.removals) > Len(overlay.removals))
       => /\ overlay.sets # <<>>
          /\ LET event == Head(overlay.sets).event
             IN  /\ event \in {log[i] : i \in CompletionsHeard(now)}
                 /\ overlay'.bypassUntil =
                       event.at + (IF event.data.cooldownMs = Undefined THEN 0
                                   ELSE event.data.cooldownMs)

\* C34 (as claimed): the content script's overlay over news.google.com is removed only
\* if the stored bypassUntil was greater than the current time when the script checked
\* it, or after a HABLA_QUIZ_COMPLETE message was received; in the latter case
\* bypassUntil = receive time + cooldownMs is stored before removal of the overlay
\* starts, and once removal starts the overlay is gone within 400 ms even if the
\* transitionend event never fires.
C34_OverlayRemoval ==
    /\ [](/\ RemovedOnlyOnBypassOrMessage
          /\ (overlay.attached /\ RemovalStarted) => now <= overlay.removals[1] + 400)
    /\ [][BypassStoredBeforeRemoval]_vars

\* C34 (amended): as claimed, but for the time the overlay takes to go: once removal
\* starts, a fallback timer due 400 ms later is set, the overlay stays no longer than
\* until that timer fires, and the timer fires when it is due or later; so the overlay
\* is gone once the fallback timer has fired, even if the transitionend event never
\* fires, and while it is still there that timer is pending.
C34_OverlayRemovalByFallback ==
    /\ [](/\ RemovedOnlyOnBypassOrMessage
          /\ (overlay.attached /\ RemovalStarted) =>
                BagIn(overlay.removals[1] + 400, overlay.fallbacks))
    /\ [][BypassStoredBeforeRemoval]_vars
    /\ [][\A due \in BagToSet(overlay.fallbacks) :
             CopiesIn(due, overlay'.fallbacks) < CopiesIn(due, overlay.fallbacks)
                => (now >= due /\ ~overlay'.attached)]_vars

\* the quiz's message was received, removal started, no transitionend event came, the
\* fallback timer fired after more than 400 ms and the overlay is gone
C34_Witness ==
    /\ overlay.at = "quiz"
    /\ RemovalStarted
    /\ ~overlay.attached
    /\ overlay.listeners > 0
    /\ overlay.fallbacks = EmptyBag
    /\ now > overlay.removals[1] + 400
    /\ \E i \in CompletionsHeard(overlay.removals[1]) : log[i].sender = "iframe"

\* C35: only the extension's own quiz iframe can end the overlay: a HABLA_QUIZ_COMPLETE
\* message posted to the page by any other sender (the host page's own script or
\* another frame) neither removes the overlay nor changes bypassUntil, and the cooldown
\* it would carry cannot be chosen by that sender.
C35_OnlyTheQuizEndsTheOverlay ==
    /\ [][\A i \in DOMAIN log' :
             (i \notin DOMAIN log /\ log'[i].sender # "iframe")
                => overlay'.sets = overlay.sets]_vars
    /\ [][(overlay.sets # <<>> /\ Len(overlay'.sets) < Len(overlay.sets)
           /\ Head(overlay.sets).event.sender # "iframe")
          => /\ overlay'.bypassUntil = overlay.bypassUntil
             /\ overlay'.removals = overlay.removals]_vars

====
